---- MODULE Spec2Model ----
(***************************************************************************)
(* A model of remote-dev-bot's configuration resolver (lib/config.py).     *)
(*                                                                         *)
(* Python values are modelled as follows.                                  *)
(*   str   a sequence of one-character strings, <<"a", "-", "b">>          *)
(*   int   an integer                                                      *)
(*   dict  an object on the heap: the sequence of its [k, v] items in      *)
(*         insertion order; a dict-valued item holds the address of the    *)
(*         object, so aliasing and mutation are visible                    *)
(*   list  an immutable sequence of values (no code modelled here writes   *)
(*         to a list)                                                      *)
(* A value is a record [t |-> tag, v |-> payload].                         *)
(***************************************************************************)
EXTENDS Integers, Sequences, FiniteSets, TLC

VARIABLES
    pc,              \* position of the running operation
    heap,            \* the dict objects, by address 1..Len(heap)
    base,            \* deep_merge: address of the first argument
    override,        \* deep_merge: address of the second argument
    command_string,  \* parse_command / resolve_config: text after "/agent-"
    known_modes,     \* parse_command: the set of mode names
    base_path,       \* resolve_config: what the file at base_path holds
    override_path,   \* resolve_config: what the file at override_path holds
    local_path,      \* resolve_config: what the file at local_path holds
    args,            \* the arguments of the other operations
    locals,          \* report_problems: its local variables
    calls,           \* report_problems: the gh commands run, with their outcomes
    result           \* what the operation returned or raised

vars == <<locals, calls, pc, heap, base, override, command_string, known_modes,
          base_path, override_path, local_path, args, result>>

\* the value of a variable the running operation does not use
Idle == <<>>

(***************************************************************************)
(* Strings                                                                 *)
(***************************************************************************)
UpperLetters ==
    <<"A", "B", "C", "D", "E", "F", "G", "H", "I", "J", "K", "L", "M",
      "N", "O", "P", "Q", "R", "S", "T", "U", "V", "W", "X", "Y", "Z">>

LowerLetters ==
    <<"a", "b", "c", "d", "e", "f", "g", "h", "i", "j", "k", "l", "m",
      "n", "o", "p", "q", "r", "s", "t", "u", "v", "w", "x", "y", "z">>

\* str.lower() on one character
lower_char(c) ==
    IF \E i \in 1..Len(UpperLetters) : UpperLetters[i] = c
    THEN LowerLetters[CHOOSE i \in 1..Len(UpperLetters) : UpperLetters[i] = c]
    ELSE c

\* str.lower()
lower(s) == [i \in 1..Len(s) |-> lower_char(s[i])]

\* a bug: str.rsplit("-", 1), the split at the last hyphen
split_last_hyphen(s) ==
    IF \E i \in 1..Len(s) : s[i] = "-"
    THEN LET i == CHOOSE j \in 1..Len(s) :
                      /\ s[j] = "-"
                      /\ \A m \in (j + 1)..Len(s) : s[m] # "-"
         IN  <<SubSeq(s, 1, i - 1), SubSeq(s, i + 1, Len(s))>>
    ELSE <<s>>

\* str.split("-", 1): at most one split, at the first hyphen
split_first_hyphen(s) ==
    IF \E i \in 1..Len(s) : s[i] = "-"
    THEN LET i == CHOOSE j \in 1..Len(s) :
                      /\ s[j] = "-"
                      /\ \A m \in 1..(j - 1) : s[m] # "-"
         IN  <<SubSeq(s, 1, i - 1), SubSeq(s, i + 1, Len(s))>>
    ELSE <<s>>

\* str.startswith(prefix)
startswith(s, prefix) ==
    /\ Len(prefix) <= Len(s)
    /\ SubSeq(s, 1, Len(prefix)) = prefix

(***************************************************************************)
(* The string literals of lib/config.py                                    *)
(***************************************************************************)
s_modes == <<"m", "o", "d", "e", "s">>

s_default_model ==
    <<"d", "e", "f", "a", "u", "l",
      "t", "_", "m", "o", "d", "e", "l">>

s_claude_small ==
    <<"c", "l", "a", "u", "d", "e",
      "-", "s", "m", "a", "l", "l">>

s_models == <<"m", "o", "d", "e", "l", "s">>

s_id == <<"i", "d">>

s_openhands == <<"o", "p", "e", "n", "h", "a", "n", "d", "s">>

s_max_iterations ==
    <<"m", "a", "x", "_", "i", "t", "e",
      "r", "a", "t", "i", "o", "n", "s">>

s_version == <<"v", "e", "r", "s", "i", "o", "n">>

s_0_39_0 == <<"0", ".", "3", "9", ".", "0">>

s_pr_type == <<"p", "r", "_", "t", "y", "p", "e">>

s_ready == <<"r", "e", "a", "d", "y">>

s_action == <<"a", "c", "t", "i", "o", "n">>

s_pr == <<"p", "r">>

s_prompt_prefix ==
    <<"p", "r", "o", "m", "p", "t",
      "_", "p", "r", "e", "f", "i", "x">>

s_context_files ==
    <<"c", "o", "n", "t", "e", "x",
      "t", "_", "f", "i", "l", "e", "s">>

s_commit_trailer ==
    <<"c", "o", "m", "m", "i", "t", "_",
      "t", "r", "a", "i", "l", "e", "r">>

s_model_alias == <<"m", "o", "d", "e", "l", "_", "a", "l", "i", "a", "s">>

s_model_id == <<"m", "o", "d", "e", "l", "_", "i", "d">>

s_oh_version == <<"o", "h", "_", "v", "e", "r", "s", "i", "o", "n">>

(***************************************************************************)
(* parse_command                                                           *)
(***************************************************************************)
\* What a call returns or raises.  kind is "ok" or the exception class.
Returned(mode, alias) ==
    [kind |-> "ok", msg |-> "", verb |-> mode, alias |-> alias, modes |-> {}]

Raised(kind, msg, verb, listed) ==
    [kind |-> kind, msg |-> msg, verb |-> verb, alias |-> <<>>, modes |-> listed]

\* a bug: the empty command is not rejected
never_empty(s) == FALSE

\* "if not command_string": the empty string is falsy
command_is_empty(s) == Len(s) = 0

\* a bug: the command is parsed as typed
keep_case(s) == s

\* "command_string = command_string.lower()"
normalize_command(s) == lower(s)

\* "model_alias = parts[1] if len(parts) > 1 else ''"
alias_of_parts(parts) == IF Len(parts) > 1 THEN parts[2] ELSE <<>>

parse_command(s, modes) ==
    IF command_is_empty(s)
    THEN Raised("ValueError", "Bare /agent is not supported", <<>>, modes)
    ELSE LET parts == split_first_hyphen(normalize_command(s))
             verb  == parts[1]
         IN  IF verb \notin modes
             THEN Raised("ValueError", "Unknown mode", verb, modes)
             ELSE Returned(verb, alias_of_parts(parts))

(***************************************************************************)
(* Values and the heap                                                     *)
(***************************************************************************)
Num(n) == [t |-> "int", v |-> n]

Str(s) == [t |-> "str", v |-> s]

List(l) == [t |-> "list", v |-> l]

\* a reference to the dict object at address a
Dict(a) == [t |-> "dict", v |-> a]

\* a dict literal of a document, not yet an object: its items in order
Map(items) == [t |-> "map", v |-> items]

Item(k, v) == [k |-> k, v |-> v]

\* isinstance(value, dict)
is_dict(value) == value.t = "dict"

\* "key in d", for the dict object d
has_key(d, key) == \E i \in 1..Len(d) : d[i].k = key

\* d[key]
get_item(d, key) == d[CHOOSE i \in 1..Len(d) : d[i].k = key].v

\* d[key] = value: an existing key keeps its position, a new one is appended
set_item(d, key, value) ==
    IF has_key(d, key)
    THEN [i \in 1..Len(d) |-> IF d[i].k = key THEN Item(key, value) ELSE d[i]]
    ELSE Append(d, Item(key, value))

\* d.keys(), as a set
keys(d) == {d[i].k : i \in 1..Len(d)}

\* the heap after "obj[key] = value" on the object at address a
store(h, a, key, value) == [h EXCEPT ![a] = set_item(h[a], key, value)]

\* a freshly constructed dict holding the given items
new_dict(h, items) == [heap |-> Append(h, items), ret |-> Len(h) + 1]

RECURSIVE load(_, _), load_items(_, _, _, _)

\* the objects yaml.safe_load builds for a document: a fresh dict per map
load(h, doc) ==
    IF doc.t = "map"
    THEN load_items(h, doc.v, 1, <<>>)
    ELSE [heap |-> h, ret |-> doc]

load_items(h, items, i, built) ==
    IF i > Len(items)
    THEN LET made == new_dict(h, built)
         IN  [heap |-> made.heap, ret |-> Dict(made.ret)]
    ELSE LET child == load(h, items[i].v)
         IN  load_items(child.heap, items, i + 1,
                        Append(built, Item(items[i].k, child.ret)))

RECURSIVE to_value(_, _)

\* what a value is equal to under Python's ==: a dict is compared by its
\* keys and their values, whatever its address and the order of its keys
to_value(h, value) ==
    IF is_dict(value)
    THEN [t |-> "dict",
          v |-> [key \in keys(h[value.v]) |->
                    to_value(h, get_item(h[value.v], key))]]
    ELSE value

RECURSIVE doc_value(_)

\* the same for a document
doc_value(doc) ==
    IF doc.t = "map"
    THEN [t |-> "dict",
          v |-> [key \in keys(doc.v) |-> doc_value(get_item(doc.v, key))]]
    ELSE doc

(***************************************************************************)
(* deep_merge                                                              *)
(***************************************************************************)
\* a bug: "result = base" in place of "result = base.copy()"
dict_alias(h, a) == [heap |-> h, ret |-> a]

\* "result = base.copy()": a new object with the same items (a shallow copy)
dict_copy(h, a) == new_dict(h, h[a])

\* a bug: dict.update semantics, nested maps are replaced and never merged
never_recurse(d, key, value) == FALSE

\* "key in result and isinstance(result[key], dict) and
\*  isinstance(value, dict)"
merges_recursively(d, key, value) ==
    /\ has_key(d, key)
    /\ is_dict(get_item(d, key))
    /\ is_dict(value)

RECURSIVE deep_merge(_, _, _), merge_items(_, _, _, _)

\* deep_merge(base, override) on heap h: the heap after the call and the
\* address of the returned dict
deep_merge(h, b, o) ==
    LET copied == dict_copy(h, b)
    IN  merge_items(copied.heap, copied.ret, o, 1)

\* the loop "for key, value in override.items()" from item i on, with
\* result at address r
merge_items(h, r, o, i) ==
    IF i > Len(h[o])
    THEN [heap |-> h, ret |-> r]
    ELSE LET key   == h[o][i].k
             value == h[o][i].v
         IN  IF merges_recursively(h[r], key, value)
             THEN LET sub == deep_merge(h, get_item(h[r], key).v, value.v)
                  IN  merge_items(store(sub.heap, r, key, Dict(sub.ret)),
                                  r, o, i + 1)
             ELSE merge_items(store(h, r, key, value), r, o, i + 1)

(***************************************************************************)
(* detect_api_provider                                                     *)
(***************************************************************************)
KNOWN_PROVIDERS ==
    << <<"a", "n", "t", "h", "r", "o", "p", "i", "c", "/">>,
       <<"o", "p", "e", "n", "a", "i", "/">>,
       <<"g", "e", "m", "i", "n", "i", "/">> >>

RECURSIVE rstrip_slash(_)

\* str.rstrip("/")
rstrip_slash(s) ==
    IF Len(s) > 0 /\ s[Len(s)] = "/"
    THEN rstrip_slash(SubSeq(s, 1, Len(s) - 1))
    ELSE s

\* the first prefix of KNOWN_PROVIDERS the id starts with, without its
\* slash, or ValueError
detect_api_provider(model_id) ==
    LET hits == {i \in 1..Len(KNOWN_PROVIDERS) :
                    startswith(model_id, KNOWN_PROVIDERS[i])}
    IN  IF hits = {}
        THEN [kind |-> "ValueError", msg |-> "Unknown provider for model",
              model |-> model_id]
        ELSE [kind |-> "ok",
              value |-> rstrip_slash(
                  KNOWN_PROVIDERS[CHOOSE i \in hits : \A j \in hits : i <= j])]

(***************************************************************************)
(* resolve_commit_trailer                                                  *)
(***************************************************************************)
DecimalDigits == <<"0", "1", "2", "3", "4", "5", "6", "7", "8", "9">>

RECURSIVE decimal(_)

\* str(n) for an int n >= 0
decimal(n) ==
    IF n < 10
    THEN <<DecimalDigits[n + 1]>>
    ELSE Append(decimal(n \div 10), DecimalDigits[(n % 10) + 1])

\* str(value), for the values a template field is given
str_of(value) == IF value.t = "int" THEN decimal(value.v) ELSE value.v

\* the position of the first "}" after position i, or 0
first_close(t, i) ==
    IF \E j \in (i + 1)..Len(t) : t[j] = "}"
    THEN CHOOSE j \in (i + 1)..Len(t) :
             /\ t[j] = "}"
             /\ \A m \in (i + 1)..(j - 1) : t[m] # "}"
    ELSE 0

IsDigits(s) == \A i \in 1..Len(s) : \E d \in 1..10 : DecimalDigits[d] = s[i]

FormatError(kind, msg, field) == [kind |-> kind, msg |-> msg, field |-> field]

\* a bug: a field the call does not supply is left in the text
keep_unknown_field(name) == [kind |-> "ok", text |-> <<"{">> \o name \o <<"}">>]

\* a replacement field whose name is none of the keyword arguments: an
\* empty or numeric name is positional, and the call has no positional
\* arguments
unknown_field(name) ==
    IF name = <<>> \/ IsDigits(name)
    THEN FormatError("IndexError", "Replacement index out of range", name)
    ELSE FormatError("KeyError", "unknown field", name)

\* a bug: the alias field is given the model id
format_field_swapped(name, alias, model_id, oh_version) ==
    IF name = s_model_alias THEN [kind |-> "ok", text |-> str_of(model_id)]
    ELSE IF name = s_model_id THEN [kind |-> "ok", text |-> str_of(model_id)]
    ELSE IF name = s_oh_version THEN [kind |-> "ok", text |-> str_of(oh_version)]
    ELSE unknown_field(name)

\* the replacement of the field called name
format_field(name, alias, model_id, oh_version) ==
    IF name = s_model_alias THEN [kind |-> "ok", text |-> str_of(alias)]
    ELSE IF name = s_model_id THEN [kind |-> "ok", text |-> str_of(model_id)]
    ELSE IF name = s_oh_version THEN [kind |-> "ok", text |-> str_of(oh_version)]
    ELSE unknown_field(name)

RECURSIVE format_from(_, _, _, _, _, _)

\* template.format(model_alias=..., model_id=..., oh_version=...) from
\* position i on, with out the text produced so far.  "{{" and "}}" are
\* literal braces, "{name}" is a replacement field; the text is read from
\* left to right and the first error ends the call.  (Field names with a
\* conversion, a format spec, an attribute or an index are not modelled.)
format_from(t, i, alias, model_id, oh_version, out) ==
    IF i > Len(t)
    THEN [kind |-> "ok", text |-> out]
    ELSE IF t[i] = "{"
    THEN IF i < Len(t) /\ t[i + 1] = "{"
         THEN format_from(t, i + 2, alias, model_id, oh_version, Append(out, "{"))
         ELSE LET j == first_close(t, i)
                  name == SubSeq(t, i + 1, j - 1)
              IN  IF j = 0
                  THEN FormatError("ValueError", "expected '}'", <<>>)
                  ELSE IF \E m \in 1..Len(name) : name[m] = "{"
                  THEN FormatError("ValueError", "unexpected '{' in field name", name)
                  ELSE LET field == format_field(name, alias, model_id, oh_version)
                       IN  IF field.kind # "ok"
                           THEN field
                           ELSE format_from(t, j + 1, alias, model_id,
                                            oh_version, out \o field.text)
    ELSE IF t[i] = "}"
    THEN IF i < Len(t) /\ t[i + 1] = "}"
         THEN format_from(t, i + 2, alias, model_id, oh_version, Append(out, "}"))
         ELSE FormatError("ValueError", "Single '}' encountered", <<>>)
    ELSE format_from(t, i + 1, alias, model_id, oh_version, Append(out, t[i]))

None == [t |-> "none", v |-> 0]

Bool(b) == [t |-> "bool", v |-> b]

\* "not x" for a value: None, "", 0, False, the empty list are falsy
is_falsy(value) ==
    \/ value.t = "none"
    \/ value.t \in {"str", "list"} /\ value.v = <<>>
    \/ value.t = "int" /\ value.v = 0
    \/ value.t = "bool" /\ ~value.v

resolve_commit_trailer(template, alias, model_id, oh_version) ==
    IF is_falsy(template)
    THEN [kind |-> "ok", text |-> <<>>]
    ELSE format_from(template.v, 1, alias, model_id, oh_version, <<>>)

(***************************************************************************)
(* resolve_config                                                          *)
(*                                                                         *)
(* A layer file is missing, malformed, or holds a YAML document: a map or  *)
(* nothing (safe_load gives None); local_path may also be None.  The       *)
(* documents follow the schema's types: modes, models, openhands and each  *)
(* of their entries are maps.                                              *)
(***************************************************************************)
NoPath == [kind |-> "none"]

Missing == [kind |-> "missing"]

Malformed == [kind |-> "malformed"]

Yaml(doc) == [kind |-> "yaml", doc |-> doc]

DEFAULT_MAX_ITERATIONS == 50

\* d.get(key, default), for the dict object d
dict_get(d, key, default) == IF has_key(d, key) THEN get_item(d, key) ELSE default

\* a bug: a layer file that does not exist is opened all the same
read_layer_unguarded(h, file) ==
    IF file.kind # "yaml"
    THEN [kind |-> "YAMLError", heap |-> h, ret |-> 0]
    ELSE LET loaded == load(h, file.doc)
         IN  IF loaded.ret.t = "none" \/ loaded.heap[loaded.ret.v] = <<>>
             THEN LET empty == new_dict(loaded.heap, <<>>)
                  IN  [kind |-> "ok", heap |-> empty.heap, ret |-> empty.ret]
             ELSE [kind |-> "ok", heap |-> loaded.heap, ret |-> loaded.ret.v]

\* "config = {}; if [path and] os.path.exists(path): config =
\*  yaml.safe_load(f) or {}": the heap after it and the address of config,
\* or the parse error
read_layer(h, file) ==
    IF file.kind \in {"none", "missing"}
    THEN LET empty == new_dict(h, <<>>)
         IN  [kind |-> "ok", heap |-> empty.heap, ret |-> empty.ret]
    ELSE IF file.kind = "malformed"
    THEN [kind |-> "YAMLError", heap |-> h, ret |-> 0]
    ELSE LET loaded == load(h, file.doc)
         IN  IF loaded.ret.t = "none" \/ loaded.heap[loaded.ret.v] = <<>>
             THEN LET empty == new_dict(loaded.heap, <<>>)
                  IN  [kind |-> "ok", heap |-> empty.heap, ret |-> empty.ret]
             ELSE [kind |-> "ok", heap |-> loaded.heap, ret |-> loaded.ret.v]

\* a bug: the override layer is merged last and wins over the local layer
merge_layers_override_last(h, b, o, l) ==
    LET first == deep_merge(h, b, l)
    IN  deep_merge(first.heap, first.ret, o)

\* "config = deep_merge(deep_merge(base_config, override_config),
\*  local_config)"
merge_layers(h, b, o, l) ==
    LET first == deep_merge(h, b, o)
    IN  deep_merge(first.heap, first.ret, l)

\* a bug: the top-level default is asked first
default_alias_top_first(config, mode_config) ==
    dict_get(config, s_default_model,
             dict_get(mode_config, s_default_model, Str(s_claude_small)))

\* "mode_config.get('default_model', config.get('default_model',
\*  'claude-small'))", for the dict objects config and mode_config
default_alias(config, mode_config) ==
    dict_get(mode_config, s_default_model,
             dict_get(config, s_default_model, Str(s_claude_small)))

\* "alias in models", for the dict object models
alias_in_models(models, alias) == alias.t = "str" /\ has_key(models, alias.v)

\* list(d.keys())
key_list(d) == [i \in 1..Len(d) |-> d[i].k]

\* a bug: the message does not say which aliases exist
unknown_alias_unlisted(models, alias) ==
    [kind |-> "KeyError", msg |-> "Unknown model alias", alias |-> alias,
     available |-> <<>>]

\* "raise KeyError(f'Unknown model alias: {alias}. Available:
\*  {list(models.keys())}')"
unknown_alias(models, alias) ==
    [kind |-> "KeyError", msg |-> "Unknown model alias", alias |-> alias,
     available |-> key_list(models)]

\* the keys of mode_config that are copied to the result when present
optional_settings(mode_config) ==
    LET prefix == IF has_key(mode_config, s_prompt_prefix)
                  THEN [prompt_prefix |-> get_item(mode_config, s_prompt_prefix)]
                  ELSE <<>>
        files  == IF has_key(mode_config, s_context_files)
                  THEN [context_files |-> get_item(mode_config, s_context_files)]
                  ELSE <<>>
    IN  prefix @@ files

\* lines 177-219, with alias resolved: the model lookup, the OpenHands
\* settings, the result dict and the commit trailer
resolve_alias(h, config, override_config, mode, mode_config, alias) ==
    LET d1     == new_dict(h, <<>>)
        models == d1.heap[dict_get(d1.heap[config], s_models, Dict(d1.ret)).v]
    IN  IF ~alias_in_models(models, alias)
        THEN [out |-> unknown_alias(models, alias), heap |-> d1.heap]
        ELSE LET model_id   == get_item(d1.heap[get_item(models, alias.v).v], s_id)
                 d2         == new_dict(d1.heap, <<>>)
                 oh         == d2.heap[dict_get(d2.heap[config], s_openhands,
                                                Dict(d2.ret)).v]
                 max_iter   == dict_get(oh, s_max_iterations,
                                        Num(DEFAULT_MAX_ITERATIONS))
                 oh_version == dict_get(oh, s_version, Str(s_0_39_0))
                 pr_type    == dict_get(oh, s_pr_type, Str(s_ready))
                 action     == dict_get(d2.heap[mode_config], s_action, Str(s_pr))
                 settings   ==
                     [mode |-> Str(mode), action |-> action, model |-> model_id,
                      alias |-> alias, max_iterations |-> max_iter,
                      oh_version |-> oh_version, pr_type |-> pr_type,
                      has_override |-> Bool(d2.heap[override_config] # <<>>)]
                     @@ optional_settings(d2.heap[mode_config])
                 trailer    == resolve_commit_trailer(
                                   dict_get(d2.heap[config], s_commit_trailer,
                                            Str(<<>>)),
                                   alias, model_id, oh_version)
             IN  IF trailer.kind # "ok"
                 THEN [out |-> trailer, heap |-> d2.heap]
                 ELSE [out |-> [kind |-> "ok",
                                value |-> settings
                                    @@ [commit_trailer |-> Str(trailer.text)]],
                       heap |-> d2.heap]

\* lines 166-175: the command is parsed against the merged modes and an
\* empty alias is replaced by the default
resolve_command(h, config, override_config, command) ==
    LET d0     == new_dict(h, <<>>)
        modes  == d0.heap[dict_get(d0.heap[config], s_modes, Dict(d0.ret)).v]
        parsed == parse_command(command, keys(modes))
    IN  IF parsed.kind # "ok"
        THEN [out |-> parsed, heap |-> d0.heap]
        ELSE LET mode_config == get_item(modes, parsed.verb).v
                 alias == IF parsed.alias = <<>>
                          THEN default_alias(d0.heap[config], d0.heap[mode_config])
                          ELSE Str(parsed.alias)
             IN  resolve_alias(d0.heap, config, override_config, parsed.verb,
                               mode_config, alias)

YAMLError == [kind |-> "YAMLError", msg |-> "malformed YAML"]

\* resolve_config(base_path, override_path, command_string, local_path)
\* on heap h: what it returns or raises, and the heap after the call
resolve_config(h, base_file, override_file, command, local_file) ==
    LET b == read_layer(h, base_file)
    IN  IF b.kind # "ok" THEN [out |-> YAMLError, heap |-> b.heap] ELSE
    LET o == read_layer(b.heap, override_file)
    IN  IF o.kind # "ok" THEN [out |-> YAMLError, heap |-> o.heap] ELSE
    LET l == read_layer(o.heap, local_file)
    IN  IF l.kind # "ok" THEN [out |-> YAMLError, heap |-> l.heap] ELSE
    LET merged == merge_layers(l.heap, b.ret, o.ret, l.ret)
    IN  resolve_command(merged.heap, merged.ret, o.ret, command)

(***************************************************************************)
(* Specification of deep_merge: one call on every pair of documents of     *)
(* nesting depth at most MaxDepth; the two arguments are two freshly       *)
(* loaded objects, or one and the same object.  base_path and              *)
(* override_path hold the documents the arguments were loaded from.        *)
(***************************************************************************)
MaxDepth == 2

KeyA == <<"a">>

KeyB == <<"b">>

Scalars == {Num(1), Num(2)}

Lists == {List(<<Num(1)>>), List(<<Num(2)>>)}

Absent == [t |-> "absent", v |-> 0]

ItemIfPresent(key, value) ==
    IF value = Absent THEN <<>> ELSE <<Item(key, value)>>

RECURSIVE NestedMaps(_)

\* the maps of depth at most d over the keys a and b: a holds a scalar, a
\* list or a nested map, b holds a scalar
NestedMaps(d) ==
    LET under == IF d > 1 THEN NestedMaps(d - 1) ELSE {}
    IN  {Map(ItemIfPresent(KeyA, a) \o ItemIfPresent(KeyB, b)) :
            a \in Scalars \cup Lists \cup under \cup {Absent},
            b \in Scalars \cup {Absent}}

InitMerge ==
    /\ locals = Idle
    /\ calls = <<>>
    /\ args = Idle
    /\ pc = "deep_merge"
    /\ base_path \in NestedMaps(MaxDepth)
    /\ override_path \in NestedMaps(MaxDepth)
    /\ \/ LET b == load(<<>>, base_path)
              o == load(b.heap, override_path)
          IN  /\ heap = o.heap
              /\ base = b.ret.v
              /\ override = o.ret.v
       \/ /\ override_path = base_path
          /\ LET b == load(<<>>, base_path)
             IN  /\ heap = b.heap
                 /\ base = b.ret.v
                 /\ override = b.ret.v
    /\ result = Idle
    /\ command_string = Idle
    /\ known_modes = {}
    /\ local_path = Idle

DeepMerge ==
    /\ pc = "deep_merge"
    /\ LET merged == deep_merge(heap, base, override)
       IN  /\ heap' = merged.heap
           /\ result' = Dict(merged.ret)
    /\ pc' = "done"
    /\ UNCHANGED <<locals, calls, base, override, command_string, known_modes,
                   base_path, override_path, local_path, args>>

NextMerge == DeepMerge

SpecMerge == InitMerge /\ [][NextMerge]_vars

\* C1: deep_merge(A, B) has the keys of A and of B; a key not in B has A's
\* value; a key whose values in A and B are both maps has
\* deep_merge(A[k], B[k]); every other key has B's value, lists included.
C1_MergeByKey ==
    pc = "done" =>
        LET M == to_value(heap, result).v
            A == doc_value(base_path).v
            B == doc_value(override_path).v
        IN  /\ DOMAIN M = DOMAIN A \cup DOMAIN B
            /\ \A key \in DOMAIN M :
                  IF key \notin DOMAIN B
                  THEN M[key] = A[key]
                  ELSE IF key \in DOMAIN A /\ A[key].t = "dict" /\ B[key].t = "dict"
                  THEN LET sub == deep_merge(heap,
                                             get_item(heap[base], key).v,
                                             get_item(heap[override], key).v)
                       IN  M[key] = to_value(sub.heap, Dict(sub.ret))
                  ELSE M[key] = B[key]

\* two nested maps were merged key by key, a list was replaced whole and a
\* sibling key of the base survived
C1_Witness ==
    /\ pc = "done"
    /\ base_path = Map(<<Item(KeyA, Map(<<Item(KeyA, List(<<Num(1)>>)),
                                          Item(KeyB, Num(1))>>)),
                         Item(KeyB, Num(2))>>)
    /\ override_path = Map(<<Item(KeyA, Map(<<Item(KeyA, List(<<Num(2)>>))>>))>>)
    /\ doc_value(Map(<<Item(KeyA, Map(<<Item(KeyA, List(<<Num(2)>>)),
                                         Item(KeyB, Num(1))>>)),
                        Item(KeyB, Num(2))>>)) = to_value(heap, result)

RECURSIVE Reach(_, _)

\* the objects that make up the dict at address a
Reach(h, a) ==
    {a} \cup UNION {Reach(h, h[a][i].v.v) :
                       i \in {j \in 1..Len(h[a]) : is_dict(h[a][j].v)}}

RECURSIVE FreshMerged(_, _, _)

\* the dict at m, returned for the merge of the dicts at a and b, and every
\* dict under it that merges two maps, is an object of neither input
FreshMerged(m, a, b) ==
    /\ m \notin Reach(heap, base) \cup Reach(heap, override)
    /\ \A key \in keys(heap[a]) \cap keys(heap[b]) :
          ( /\ is_dict(get_item(heap[a], key))
            /\ is_dict(get_item(heap[b], key)) )
              => /\ has_key(heap[m], key)
                 /\ is_dict(get_item(heap[m], key))
                 /\ FreshMerged(get_item(heap[m], key).v,
                                get_item(heap[a], key).v,
                                get_item(heap[b], key).v)

\* C2: after deep_merge(base, override) both inputs are what they were at
\* every depth, and the returned map and every nested map made by merging
\* two maps is a new object.
C2_NoMutation ==
    pc = "done" =>
        /\ to_value(heap, Dict(base)) = doc_value(base_path)
        /\ to_value(heap, Dict(override)) = doc_value(override_path)
        /\ FreshMerged(result.v, base, override)

\* a merge that had to write into a nested map has returned
C2_Witness ==
    /\ pc = "done"
    /\ base # override
    /\ base_path = Map(<<Item(KeyA, Map(<<Item(KeyA, Num(1))>>))>>)
    /\ override_path = Map(<<Item(KeyA, Map(<<Item(KeyA, Num(2))>>))>>)
    /\ get_item(heap[result.v], KeyA).v
          \notin {get_item(heap[base], KeyA).v, get_item(heap[override], KeyA).v}

(***************************************************************************)
(* Specification of parse_command: one call on every command text of at    *)
(* most MaxLen characters and every set of at most MaxModes mode names.    *)
(***************************************************************************)
MaxLen == 5

MaxModes == 2

\* a lowercase letter, an uppercase letter, the separator and a digit
Alphabet == {"a", "A", "-", "1"}

StringsUpTo(n) == UNION {[1..k -> Alphabet] : k \in 0..n}

\* keys a "modes" map may hold: any YAML key is possible
ModeNames ==
    {<<>>, <<"a">>, <<"A">>, <<"a", "1">>, <<"a", "-", "1">>}

InitParse ==
    /\ locals = Idle
    /\ calls = <<>>
    /\ args = Idle
    /\ pc = "parse_command"
    /\ command_string \in StringsUpTo(MaxLen)
    /\ known_modes \in {m \in SUBSET ModeNames : Cardinality(m) <= MaxModes}
    /\ result = Idle
    /\ heap = <<>>
    /\ base = 0
    /\ override = 0
    /\ base_path = Idle
    /\ override_path = Idle
    /\ local_path = Idle

ParseCommand ==
    /\ pc = "parse_command"
    /\ result' = parse_command(command_string, known_modes)
    /\ pc' = "done"
    /\ UNCHANGED <<locals, calls, heap, base, override, command_string, known_modes,
                   base_path, override_path, local_path, args>>

NextParse == ParseCommand

SpecParse == InitParse /\ [][NextParse]_vars

IsLower(s) == lower(s) = s

HasHyphen(s) == \E i \in 1..Len(s) : s[i] = "-"

\* the ways to read the command as m + "-" + a with m a known mode
Splits ==
    {i \in 1..Len(command_string) :
        /\ command_string[i] = "-"
        /\ SubSeq(command_string, 1, i - 1) \in known_modes
        /\ IsLower(SubSeq(command_string, i + 1, Len(command_string)))}

ModeOfSplit(i) == SubSeq(command_string, 1, i - 1)

AliasOfSplit(i) == SubSeq(command_string, i + 1, Len(command_string))

\* C4 as stated: for every known mode m and lowercase alias a,
\* parse_command(m + "-" + a) returns (m, a) and parse_command(m) returns
\* (m, "").
C4_RoundTripAnyMode ==
    pc = "done" =>
        /\ \A i \in Splits : result = Returned(ModeOfSplit(i), AliasOfSplit(i))
        /\ command_string \in known_modes => result = Returned(command_string, <<>>)

\* C4 amended: for every known mode m that is lowercase and holds no hyphen,
\* and every lowercase alias a, parse_command(m + "-" + a) returns (m, a) with
\* the alias verbatim; if m is also non-empty, parse_command(m) returns
\* (m, "").
C4_RoundTrip ==
    pc = "done" =>
        /\ \A i \in Splits :
              (IsLower(ModeOfSplit(i)) /\ ~HasHyphen(ModeOfSplit(i)))
                  => result = Returned(ModeOfSplit(i), AliasOfSplit(i))
        /\ ( /\ command_string \in known_modes
             /\ IsLower(command_string)
             /\ ~HasHyphen(command_string)
             /\ command_string # <<>> )
              => result = Returned(command_string, <<>>)

\* a call on m + "-" + a whose alias has an inner hyphen has returned
C4_Witness ==
    /\ pc = "done"
    /\ command_string = <<"a", "-", "1", "-", "a">>
    /\ <<"a">> \in known_modes
    /\ result = Returned(<<"a">>, <<"1", "-", "a">>)

\* C5: parse_command(X) and parse_command(X.lower()) have the same outcome,
\* and a returned mode and alias are in lowercase.
C5_CaseInsensitive ==
    pc = "done" =>
        /\ result = parse_command(lower(command_string), known_modes)
        /\ result.kind = "ok" => (IsLower(result.verb) /\ IsLower(result.alias))

\* a command with uppercase letters in mode and alias has been parsed
C5_Witness ==
    /\ pc = "done"
    /\ command_string = <<"A", "-", "A", "1">>
    /\ result = Returned(<<"a">>, <<"a", "1">>)

\* the text before the first hyphen of the lower-cased command
VerbOf(s) ==
    CHOOSE p \in {SubSeq(lower(s), 1, n) : n \in 0..Len(s)} :
        /\ ~HasHyphen(p)
        /\ Len(p) = Len(s) \/ s[Len(p) + 1] = "-"

\* C6: parse_command raises exactly when the text is empty (the "Bare /agent"
\* error) or when the lower-cased text before the first hyphen is no known
\* mode (the "Unknown mode" error naming the verb and listing the modes);
\* in every other case it returns a pair.
C6_FailsExactly ==
    pc = "done" =>
        /\ command_string = <<>> =>
              /\ result.kind = "ValueError"
              /\ result.msg = "Bare /agent is not supported"
        /\ (command_string # <<>> /\ VerbOf(command_string) \notin known_modes) =>
              /\ result.kind = "ValueError"
              /\ result.msg = "Unknown mode"
              /\ result.verb = VerbOf(command_string)
              /\ result.modes = known_modes
        /\ (command_string # <<>> /\ VerbOf(command_string) \in known_modes) =>
              result.kind = "ok"

\* an unknown verb followed by a model suffix has been rejected
C6_Witness ==
    /\ pc = "done"
    /\ command_string = <<"1", "-", "a">>
    /\ known_modes = {<<"a">>, <<"a", "1">>}
    /\ result.msg = "Unknown mode"
    /\ result.verb = <<"1">>

(***************************************************************************)
(* Specification of resolve_config: one call on every choice of the three  *)
(* layer files and of the command.                                         *)
(***************************************************************************)
t_resolve == <<"r", "e", "s", "o", "l", "v", "e">>

t_design == <<"d", "e", "s", "i", "g", "n">>

t_review == <<"r", "e", "v", "i", "e", "w">>

t_m1 == <<"m", "1">>

t_m2 == <<"m", "2">>

t_zz == <<"z", "z">>

t_anthropic_a == <<"a", "n", "t", "h", "r", "o", "p", "i", "c", "/", "a">>

t_openai_b == <<"o", "p", "e", "n", "a", "i", "/", "b">>

t_mistral_c == <<"m", "i", "s", "t", "r", "a", "l", "/", "c">>

t_1_3_0 == <<"1", ".", "3", ".", "0">>

t_draft == <<"d", "r", "a", "f", "t">>

t_comment == <<"c", "o", "m", "m", "e", "n", "t">>

t_explode == <<"e", "x", "p", "l", "o", "d", "e">>

t_prefix == <<"p", "r", "e", "f", "i", "x">>

t_readme == <<"R", "E", "A", "D", "M", "E", ".", "m", "d">>

t_agents == <<"A", "G", "E", "N", "T", "S", ".", "m", "d">>

t_trailer ==
    <<"{", "m", "o", "d", "e", "l", "_", "a", "l", "i", "a", "s", "}", " ", "{", "m", "o", "d", "e",
      "l", "_", "i", "d", "}", " ", "v", "{", "o", "h", "_", "v", "e", "r", "s", "i", "o", "n", "}">>

t_trailer_who == <<"b", "y", " ", "{", "w", "h", "o", "}">>

t_on_failure == <<"o", "n", "_", "f", "a", "i", "l", "u", "r", "e">>

\* the defaults of a base layer: two models, two modes, every setting
DocFull ==
    Map(<<
        Item(s_default_model, Str(t_m1)),
        Item(s_models, Map(<<
            Item(t_m1, Map(<<Item(s_id, Str(t_anthropic_a))>>)),
            Item(t_m2, Map(<<Item(s_id, Str(t_openai_b))>>))>>)),
        Item(s_modes, Map(<<
            Item(t_resolve, Map(<<Item(s_action, Str(s_pr))>>)),
            Item(t_design, Map(<<
                Item(s_action, Str(t_comment)),
                Item(s_default_model, Str(t_m2)),
                Item(s_prompt_prefix, Str(t_prefix)),
                Item(s_context_files, List(<<Str(t_readme), Str(t_agents)>>))>>))>>)),
        Item(s_openhands, Map(<<
            Item(s_version, Str(t_1_3_0)),
            Item(s_max_iterations, Num(50)),
            Item(s_pr_type, Str(t_draft))>>))>>)

\* no default model anywhere, no openhands block
DocMinimal ==
    Map(<<
        Item(s_models, Map(<<
            Item(s_claude_small, Map(<<Item(s_id, Str(t_anthropic_a))>>))>>)),
        Item(s_modes, Map(<<Item(t_resolve, Map(<<>>))>>))>>)

\* one execution setting
DocIterations10 ==
    Map(<<Item(s_openhands, Map(<<Item(s_max_iterations, Num(10))>>))>>)

\* the same setting with another value
DocIterations99 ==
    Map(<<Item(s_openhands, Map(<<Item(s_max_iterations, Num(99))>>))>>)

\* a top-level default model
DocTopDefault ==
    Map(<<Item(s_default_model, Str(t_m2))>>)

\* a default model of the resolve mode
DocModeDefault ==
    Map(<<
        Item(s_modes, Map(<<Item(t_resolve, Map(<<Item(s_default_model, Str(t_m2))>>))>>))>>)

\* a default model that is no alias
DocUnknownDefault ==
    Map(<<Item(s_default_model, Str(t_zz))>>)

\* an alias whose id has no allow-listed provider
DocOtherProvider ==
    Map(<<
        Item(s_models, Map(<<Item(t_m2, Map(<<Item(s_id, Str(t_mistral_c))>>))>>))>>)

\* an allowed failure policy
DocOnFailureDraft ==
    Map(<<Item(s_openhands, Map(<<Item(t_on_failure, Str(t_draft))>>))>>)

\* a failure policy outside the allow-list
DocOnFailureInvalid ==
    Map(<<Item(s_openhands, Map(<<Item(t_on_failure, Str(t_explode))>>))>>)

\* a mode the lower layers do not have
DocNewMode ==
    Map(<<
        Item(s_modes, Map(<<Item(t_review, Map(<<Item(s_action, Str(t_comment))>>))>>))>>)

\* a commit trailer template
DocTrailer ==
    Map(<<Item(s_commit_trailer, Str(t_trailer))>>)

\* a commit trailer template with an unsupported placeholder
DocTrailerUnknown ==
    Map(<<Item(s_commit_trailer, Str(t_trailer_who))>>)

LayerDocs ==
    {DocFull, DocMinimal, DocIterations10, DocIterations99,
     DocTopDefault, DocModeDefault, DocUnknownDefault, DocOtherProvider,
     DocOnFailureDraft, DocOnFailureInvalid, DocNewMode, DocTrailer,
     DocTrailerUnknown}

\* what a layer file may be
LayerFiles == {Missing, Malformed, Yaml(None)} \cup {Yaml(doc) : doc \in LayerDocs}

CmdBare == <<>>

CmdResolve == <<"r", "e", "s", "o", "l", "v", "e">>

CmdResolveM2 == <<"R", "e", "s", "o", "l", "v", "e", "-", "M", "2">>

CmdDesign == <<"d", "e", "s", "i", "g", "n">>

CmdResolveUnknown == <<"r", "e", "s", "o", "l", "v", "e", "-", "z", "z">>

CmdFrobnicate == <<"f", "r", "o", "b", "n", "i", "c", "a", "t", "e">>

CmdReviewM1 == <<"r", "e", "v", "i", "e", "w", "-", "m", "1">>

CmdDesignM1 == <<"D", "E", "S", "I", "G", "N", "-", "m", "1">>

Commands ==
    {CmdBare, CmdResolve, CmdResolveM2, CmdDesign, CmdResolveUnknown,
     CmdFrobnicate, CmdReviewM1, CmdDesignM1}

InitResolve ==
    /\ locals = Idle
    /\ calls = <<>>
    /\ args = Idle
    /\ pc = "resolve_config"
    /\ base_path \in LayerFiles
    /\ override_path \in LayerFiles
    /\ local_path \in LayerFiles \cup {NoPath}
    /\ command_string \in Commands
    /\ heap = <<>>
    /\ result = Idle
    /\ base = 0
    /\ override = 0
    /\ known_modes = {}

ResolveConfig ==
    /\ pc = "resolve_config"
    /\ LET call == resolve_config(heap, base_path, override_path,
                                  command_string, local_path)
       IN  /\ result' = call.out
           /\ heap' = call.heap
    /\ pc' = "done"
    /\ UNCHANGED <<locals, calls, base, override, command_string, known_modes,
                   base_path, override_path, local_path, args>>

NextResolve == ResolveConfig

SpecResolve == InitResolve /\ [][NextResolve]_vars

\* the document of a layer, with a missing or empty file as the empty map
LayerDoc(file) ==
    IF file.kind = "yaml" /\ file.doc.t = "map" THEN file.doc ELSE Map(<<>>)

RECURSIVE PathGet(_, _)

\* the value a document holds under a path of keys, or Absent
PathGet(doc, path) ==
    IF path = <<>>
    THEN doc
    ELSE IF doc.t = "map" /\ has_key(doc.v, Head(path))
    THEN PathGet(get_item(doc.v, Head(path)), Tail(path))
    ELSE Absent

\* the value of the highest layer that defines the path: local, then
\* override, then base
Highest(path) ==
    IF PathGet(LayerDoc(local_path), path) # Absent
    THEN PathGet(LayerDoc(local_path), path)
    ELSE IF PathGet(LayerDoc(override_path), path) # Absent
    THEN PathGet(LayerDoc(override_path), path)
    ELSE PathGet(LayerDoc(base_path), path)

\* the keys some layer gives the top-level map called block
LayerKeys(block) ==
    UNION {IF PathGet(LayerDoc(file), <<block>>) = Absent
           THEN {}
           ELSE keys(PathGet(LayerDoc(file), <<block>>).v) :
              file \in {base_path, override_path, local_path}}

NoLayerMalformed == Malformed \notin {base_path, override_path, local_path}

\* the settings of the result and where the layers define them
SettingsOf(mode, alias) ==
    {[path |-> <<s_openhands, s_max_iterations>>, field |-> "max_iterations"],
     [path |-> <<s_openhands, s_version>>, field |-> "oh_version"],
     [path |-> <<s_openhands, s_pr_type>>, field |-> "pr_type"],
     [path |-> <<s_modes, mode, s_action>>, field |-> "action"],
     [path |-> <<s_models, alias, s_id>>, field |-> "model"]}

\* C3: every setting of the result has the value of the highest layer that
\* defines it, local above override above base; a layer that does not
\* define it leaves the lower layer's value and its siblings in place.
C3_LayerPrecedence ==
    (pc = "done" /\ result.kind = "ok") =>
        \A s \in SettingsOf(result.value.mode.v, result.value.alias.v) :
            Highest(s.path) # Absent => result.value[s.field] = Highest(s.path)

\* base 50, override 10, local 99 resolved to 99, with the version of the
\* base kept
C3_Witness ==
    /\ pc = "done"
    /\ base_path = Yaml(DocFull)
    /\ override_path = Yaml(DocIterations10)
    /\ local_path = Yaml(DocIterations99)
    /\ result.kind = "ok"
    /\ result.value.max_iterations = Num(99)
    /\ result.value.oh_version = Str(t_1_3_0)
    /\ result.value.pr_type = Str(t_draft)

\* the alias the command carries: the lower-cased text after its first
\* hyphen
GivenAlias ==
    IF Len(VerbOf(command_string)) = Len(command_string)
    THEN <<>>
    ELSE SubSeq(lower(command_string), Len(VerbOf(command_string)) + 2,
                Len(command_string))

\* the alias the default chain gives for the command's mode
ChainAlias ==
    LET mode == VerbOf(command_string)
    IN  IF Highest(<<s_modes, mode, s_default_model>>) # Absent
        THEN Highest(<<s_modes, mode, s_default_model>>)
        ELSE IF Highest(<<s_default_model>>) # Absent
        THEN Highest(<<s_default_model>>)
        ELSE Str(s_claude_small)

ExpectedAlias == IF GivenAlias # <<>> THEN Str(GivenAlias) ELSE ChainAlias

UnknownAliasRaised ==
    result.kind = "KeyError" /\ result.msg = "Unknown model alias"

\* C7: without an alias in the command the alias used is the mode's
\* default_model, else the top-level default_model, else "claude-small";
\* with an alias in the command it is that alias.
C7_DefaultAliasChain ==
    pc = "done" =>
        /\ result.kind = "ok" => result.value.alias = ExpectedAlias
        /\ UnknownAliasRaised => result.alias = ExpectedAlias

\* the design mode's default m2 was used although the top-level default
\* is m1
C7_Witness ==
    /\ pc = "done"
    /\ command_string = CmdDesign
    /\ Highest(<<s_default_model>>) = Str(t_m1)
    /\ Highest(<<s_modes, t_design, s_default_model>>) = Str(t_m2)
    /\ result.kind = "ok"
    /\ result.value.alias = Str(t_m2)

\* C8: an alias, given or defaulted, that is no key of the merged models map
\* raises "Unknown model alias", listing exactly the merged aliases.
C8_UnknownAlias ==
    ( /\ pc = "done"
      /\ NoLayerMalformed
      /\ command_string # <<>>
      /\ VerbOf(command_string) \in LayerKeys(s_modes)
      /\ ExpectedAlias.v \notin LayerKeys(s_models) )
        => /\ UnknownAliasRaised
           /\ result.alias = ExpectedAlias
           /\ {result.available[i] : i \in 1..Len(result.available)}
                 = LayerKeys(s_models)
           /\ Len(result.available) = Cardinality(LayerKeys(s_models))

\* an alias given in the command and unknown to models merged from two
\* layers was rejected
C8_Witness ==
    /\ pc = "done"
    /\ command_string = CmdResolveUnknown
    /\ base_path = Yaml(DocFull)
    /\ override_path = Yaml(DocMinimal)
    /\ UnknownAliasRaised
    /\ result.alias = Str(t_zz)
    /\ result.available = <<t_m1, t_m2, s_claude_small>>

AllowedProviderPrefixes ==
    {<<"a", "n", "t", "h", "r", "o", "p", "i", "c", "/">>,
     <<"o", "p", "e", "n", "a", "i", "/">>,
     <<"g", "e", "m", "i", "n", "i", "/">>}

HasAllowedPrefix(id) ==
    \E prefix \in AllowedProviderPrefixes :
        /\ Len(id) >= Len(prefix)
        /\ \A i \in 1..Len(prefix) : id[i] = prefix[i]

ModelIds == {t_anthropic_a, t_openai_b, t_mistral_c}

\* C9: a model id is accepted only with an allow-listed provider prefix:
\* detect_api_provider raises ValueError for any other id, and
\* resolve_config never returns a settings record carrying such an id.
C9_ProviderAllowList ==
    /\ \A id \in ModelIds :
          ~HasAllowedPrefix(id) => detect_api_provider(id).kind = "ValueError"
    /\ (pc = "done" /\ result.kind = "ok")
          => HasAllowedPrefix(result.value.model.v)

AllowedFailurePolicies == {Str(t_comment), Str(t_draft)}

\* C10: an on_failure value of the merged config outside the allowed
\* policies makes resolve_config fail; no settings record is returned.
C10_InvalidOnFailure ==
    ( /\ pc = "done"
      /\ Highest(<<s_openhands, t_on_failure>>) # Absent
      /\ Highest(<<s_openhands, t_on_failure>>) \notin AllowedFailurePolicies )
        => result.kind # "ok"

HasField(record, field, value) ==
    field \in DOMAIN record /\ record[field] = value

\* C11: when no layer defines the openhands block the settings record has
\* max_iterations 50, oh_version "0.39.0", pr_type "ready" and on_failure
\* "comment"; when the layers set on_failure to "draft" the record has
\* on_failure "draft".
C11_ExecutionDefaults ==
    (pc = "done" /\ result.kind = "ok") =>
        /\ Highest(<<s_openhands>>) = Absent =>
              /\ result.value.max_iterations = Num(50)
              /\ result.value.oh_version = Str(s_0_39_0)
              /\ result.value.pr_type = Str(s_ready)
              /\ HasField(result.value, "on_failure", Str(t_comment))
        /\ Highest(<<s_openhands, t_on_failure>>) = Str(t_draft) =>
              HasField(result.value, "on_failure", Str(t_draft))

(***************************************************************************)
(* Specification of resolve_commit_trailer: one call on every template of  *)
(* at most MaxParts parts, a part being a character, a brace or a          *)
(* replacement field, and on None.  args holds the four arguments.         *)
(***************************************************************************)
MaxParts == 3

Field(name) == <<"{">> \o name \o <<"}">>

TemplateParts ==
    {<<"x">>, <<"{">>, <<"}">>, Field(s_model_alias), Field(s_model_id),
     Field(s_oh_version), Field(<<"w">>), Field(<<"0">>)}

RECURSIVE Templates(_)

Templates(n) ==
    IF n = 0
    THEN {<<>>}
    ELSE Templates(n - 1) \cup
         {t \o part : t \in Templates(n - 1), part \in TemplateParts}

InitTrailer ==
    /\ locals = Idle
    /\ calls = <<>>
    /\ pc = "resolve_commit_trailer"
    /\ args \in [template : {None} \cup {Str(t) : t \in Templates(MaxParts)},
                 alias : {Str(<<"m">>), Str(Field(<<"m">>))},
                 model_id : {Str(<<"p", "/", "n">>)},
                 oh_version : {Str(<<"1", ".", "3">>), Num(12)}]
    /\ result = Idle
    /\ heap = <<>>
    /\ base = 0
    /\ override = 0
    /\ command_string = Idle
    /\ known_modes = {}
    /\ base_path = Idle
    /\ override_path = Idle
    /\ local_path = Idle

ResolveCommitTrailer ==
    /\ pc = "resolve_commit_trailer"
    /\ result' = resolve_commit_trailer(args.template, args.alias,
                                        args.model_id, args.oh_version)
    /\ pc' = "done"
    /\ UNCHANGED <<locals, calls, heap, base, override, command_string, known_modes,
                   base_path, override_path, local_path, args>>

NextTrailer == ResolveCommitTrailer

SpecTrailer == InitTrailer /\ [][NextTrailer]_vars

Drop(s, n) == SubSeq(s, n + 1, Len(s))

RECURSIVE Substituted(_, _, _, _)

\* the text t with every {model_alias}, {model_id} and {oh_version} replaced
\* by the text of the argument, and every other character kept
Substituted(t, alias, model_id, oh_version) ==
    IF t = <<>>
    THEN <<>>
    ELSE IF startswith(t, Field(s_model_alias))
    THEN alias \o Substituted(Drop(t, Len(Field(s_model_alias))),
                              alias, model_id, oh_version)
    ELSE IF startswith(t, Field(s_model_id))
    THEN model_id \o Substituted(Drop(t, Len(Field(s_model_id))),
                                 alias, model_id, oh_version)
    ELSE IF startswith(t, Field(s_oh_version))
    THEN oh_version \o Substituted(Drop(t, Len(Field(s_oh_version))),
                                   alias, model_id, oh_version)
    ELSE <<Head(t)>> \o Substituted(Tail(t), alias, model_id, oh_version)

TextOf(value) == IF value.t = "int" THEN decimal(value.v) ELSE value.v

ExpectedTrailer ==
    Substituted(args.template.v, TextOf(args.alias), TextOf(args.model_id),
                TextOf(args.oh_version))

IsBrace(c) == c \in {"{", "}"}

\* t has a field {name} whose name is none of the three
HasUnknownField(t) ==
    \E i, j \in 1..Len(t) :
        /\ i < j
        /\ t[i] = "{"
        /\ t[j] = "}"
        /\ \A m \in (i + 1)..(j - 1) : ~IsBrace(t[m])
        /\ SubSeq(t, i + 1, j - 1)
              \notin {s_model_alias, s_model_id, s_oh_version}

\* the braces of t are those of the three fields and no others
OnlyFieldBraces(t) ==
    LET rest == Substituted(t, <<>>, <<>>, <<>>)
    IN  \A i \in 1..Len(rest) : ~IsBrace(rest[i])

EmptyTemplate == args.template = None \/ args.template = Str(<<>>)

\* C12 as stated: the empty template and None give ""; every other template
\* without a field other than the three comes back with its fields replaced
\* and every other character unchanged.
C12_TrailerAnyTemplate ==
    pc = "done" =>
        /\ EmptyTemplate => result = [kind |-> "ok", text |-> <<>>]
        /\ (~EmptyTemplate /\ ~HasUnknownField(args.template.v)) =>
              result = [kind |-> "ok", text |-> ExpectedTrailer]

\* C12: the empty template and None give ""; a template whose only braces
\* are those of {model_alias}, {model_id} and {oh_version} comes back with
\* these fields replaced and every other character unchanged.
C12_Trailer ==
    pc = "done" =>
        /\ EmptyTemplate => result = [kind |-> "ok", text |-> <<>>]
        /\ (~EmptyTemplate /\ OnlyFieldBraces(args.template.v)) =>
              result = [kind |-> "ok", text |-> ExpectedTrailer]

\* "x{model_alias}{oh_version}" was rendered as "xm12"
C12_Witness ==
    /\ pc = "done"
    /\ args.template =
          Str(<<"x">> \o Field(s_model_alias) \o Field(s_oh_version))
    /\ args.alias = Str(<<"m">>)
    /\ args.oh_version = Num(12)
    /\ result = [kind |-> "ok", text |-> <<"x", "m", "1", "2">>]

(***************************************************************************)
(* main of lib/config.py: the resolver's command line.  The file named by  *)
(* GITHUB_OUTPUT is [exists, lines]; a line "key=text" is [key, text].     *)
(* An exception main does not catch ends the interpreter with a traceback  *)
(* on stderr and exit status 1.                                            *)
(***************************************************************************)
NoFile == [exists |-> FALSE, lines |-> <<>>]

File(lines) == [exists |-> TRUE, lines |-> lines]

Line(key, text) == [key |-> key, text |-> text]

RECURSIVE json_items(_, _)

\* json.dumps of a list of strings from item i on (no character of the
\* inputs needs escaping)
json_items(l, i) ==
    IF i > Len(l)
    THEN <<>>
    ELSE (IF i > 1 THEN <<",", " ">> ELSE <<>>)
         \o <<"\"">> \o l[i].v \o <<"\"">> \o json_items(l, i + 1)

json_dumps(value) == <<"[">> \o json_items(value.v, 1) \o <<"]">>

\* the lines written to GITHUB_OUTPUT for the settings record
output_lines(settings) ==
    <<Line("mode", str_of(settings.mode)),
      Line("action", str_of(settings.action)),
      Line("model", str_of(settings.model)),
      Line("alias", str_of(settings.alias)),
      Line("max_iterations", str_of(settings.max_iterations)),
      Line("oh_version", str_of(settings.oh_version)),
      Line("pr_type", str_of(settings.pr_type))>>
    \o (IF "context_files" \in DOMAIN settings
        THEN <<Line("context_files", json_dumps(settings.context_files))>>
        ELSE <<>>)
    \o <<Line("commit_trailer", str_of(settings.commit_trailer))>>

\* a bug: the file is opened with "w"
overwrite_lines(file, lines) == File(lines)

\* with open(output_file, "a") as f: f.write(...)
append_lines(file, lines) == File(file.lines \o lines)

\* "except (KeyError, ValueError)"
is_caught(outcome) == outcome.kind \in {"KeyError", "ValueError"}

\* the lines printed for visibility
log_lines(settings) ==
    <<Line("Config", IF settings.has_override.v THEN "target repo" ELSE "none"),
      Line("Mode", <<settings.mode, settings.action>>),
      Line("Model alias", settings.alias),
      Line("Model ID", settings.model)>>

\* main with argv[1] = command, the three layer files, GITHUB_OUTPUT =
\* output_file and the file it names
main(command, base_file, override_file, local_file, output_file, file) ==
    LET call == resolve_config(<<>>, base_file, override_file, command,
                               local_file).out
    IN  IF call.kind # "ok" /\ is_caught(call)
        THEN [exit |-> 1, stderr |-> "ERROR", cause |-> call,
              stdout |-> <<>>, file |-> file]
        ELSE IF call.kind # "ok"
        THEN [exit |-> 1, stderr |-> "Traceback", cause |-> call,
              stdout |-> <<>>, file |-> file]
        ELSE [exit |-> 0, stderr |-> "", cause |-> call,
              stdout |-> log_lines(call.value),
              file |-> IF is_falsy(output_file)
                       THEN file
                       ELSE append_lines(file, output_lines(call.value))]

(***************************************************************************)
(* Specification of main: one run for every command, a choice of layer     *)
(* files among which the local file carries a commit trailer template,     *)
(* GITHUB_OUTPUT unset, empty or naming a file, and that file absent or    *)
(* holding a line already.                                                 *)
(***************************************************************************)
TrailerDoc(t) == Map(<<Item(s_commit_trailer, Str(t))>>)

MainTemplates ==
    {<<>>, <<"x">>, t_trailer, t_trailer_who, Field(Field(<<"w">>)),
     Field(<<>>), Field(<<"0">>), <<"}">>, <<"{">>,
     <<"}">> \o Field(<<"w">>)}

MainBaseFiles == {Missing, Malformed, Yaml(DocFull), Yaml(DocMinimal)}

MainOverrideFiles == {Missing, Malformed, Yaml(None), Yaml(DocIterations10)}

MainLocalFiles ==
    {NoPath, Missing, Malformed} \cup {Yaml(TrailerDoc(t)) : t \in MainTemplates}

t_out == <<"o", "u", "t">>

InitMain ==
    /\ locals = Idle
    /\ calls = <<>>
    /\ pc = "main"
    /\ command_string \in Commands
    /\ base_path \in MainBaseFiles
    /\ override_path \in MainOverrideFiles
    /\ local_path \in MainLocalFiles
    /\ args \in [output_file : {None, Str(<<>>), Str(t_out)},
                 file : {NoFile, File(<<Line("earlier", <<"1">>)>>)}]
    /\ result = Idle
    /\ heap = <<>>
    /\ base = 0
    /\ override = 0
    /\ known_modes = {}

Main ==
    /\ pc = "main"
    /\ result' = main(command_string, base_path, override_path, local_path,
                      args.output_file, args.file)
    /\ pc' = "done"
    /\ UNCHANGED <<locals, calls, heap, base, override, command_string, known_modes,
                   base_path, override_path, local_path, args>>

NextMain == Main

SpecMain == InitMain /\ [][NextMain]_vars

RECURSIVE Unescaped(_)

\* the text t without its doubled braces, read from left to right
Unescaped(t) ==
    IF t = <<>>
    THEN <<>>
    ELSE IF Len(t) >= 2 /\ IsBrace(t[1]) /\ t[2] = t[1]
    THEN Unescaped(Drop(t, 2))
    ELSE <<Head(t)>> \o Unescaped(Tail(t))

\* the commit trailer template of the merged layers, or Absent
MergedTemplate == Highest(<<s_commit_trailer>>)

\* resolve_commit_trailer raises for the template, whatever the other
\* arguments
TrailerFails(template) ==
    \A alias \in {Str(<<"m">>), Str(t_m1)}, version \in {Str(t_1_3_0), Num(12)} :
        resolve_commit_trailer(template, alias, Str(t_openai_b), version).kind
            # "ok"

RunFailed ==
    /\ result.cause.kind # "ok"
    /\ result.exit = 1
    /\ result.stderr # ""
    /\ result.file = args.file

InvalidTemplate ==
    /\ MergedTemplate # Absent
    /\ ~OnlyFieldBraces(Unescaped(MergedTemplate.v))

ResolutionFails ==
    \/ ~NoLayerMalformed
    \/ command_string = <<>>
    \/ VerbOf(command_string) \notin LayerKeys(s_modes)
    \/ ExpectedAlias.v \notin LayerKeys(s_models)
    \/ InvalidTemplate

ExpectedKeys ==
    <<"mode", "action", "model", "alias", "max_iterations", "oh_version",
      "pr_type">>
    \o (IF Highest(<<s_modes, VerbOf(command_string), s_context_files>>) # Absent
        THEN <<"context_files">>
        ELSE <<>>)
    \o <<"commit_trailer">>

\* the lines of the file after the run that were not there before
Appended == Drop(result.file.lines, Len(args.file.lines))

EmptyFile == Yaml(None)

IsAbsent(file) == file \in {Missing, NoPath}

\* C14: in each of the three layers a file that does not exist (or
\* local_path = None) gives what an existing empty file gives and no error
\* of its own; a malformed file in any layer makes resolve_config raise the
\* YAML parse error.
C14_AbsentLayerIsEmpty ==
    pc = "done" =>
        /\ IsAbsent(base_path) =>
              result = resolve_config(<<>>, EmptyFile, override_path,
                                      command_string, local_path).out
        /\ IsAbsent(override_path) =>
              result = resolve_config(<<>>, base_path, EmptyFile,
                                      command_string, local_path).out
        /\ IsAbsent(local_path) =>
              result = resolve_config(<<>>, base_path, override_path,
                                      command_string, EmptyFile).out
        /\ ~NoLayerMalformed => result = YAMLError
        /\ NoLayerMalformed => result.kind # "YAMLError"

\* without an override file and without a local path the base alone was
\* resolved
C14_Witness ==
    /\ pc = "done"
    /\ base_path = Yaml(DocFull)
    /\ override_path = Missing
    /\ local_path = NoPath
    /\ command_string = CmdResolve
    /\ result.kind = "ok"
    /\ result.value.has_override = Bool(FALSE)
    /\ result.value.oh_version = Str(t_1_3_0)

(***************************************************************************)
(* The workflow compiler (scripts/compile.py).                             *)
(*                                                                         *)
(* A step of a job is a record [name, id, cond, uses, with, env, run,      *)
(* inline]; a key the step does not have is "" (env: NoEnv).  Step names,  *)
(* keys and the values of "if", "uses", "with" and env are atoms (TLA+     *)
(* strings); the text of "run" is a sequence of pieces, each piece an atom *)
(* standing for a literal stretch of shell or Python text.  The run text   *)
(* of the synthesized parse step is the inline parser: its fixed text is   *)
(* the piece INLINE_PARSER and inline holds the values baked into it.      *)
(* dict.copy() of a step is shallow: the copy shares its env with the step *)
(* of the in-memory generic definition, so a write into the env of the     *)
(* copy is a write into the definition; build_steps returns the definition *)
(* as the writes have left it.                                             *)
(***************************************************************************)
NoEnv == [set |-> FALSE, map |-> <<>>]

Env(map) == [set |-> TRUE, map |-> map]

Step(name, env, run) ==
    [name |-> name, id |-> "", cond |-> "", uses |-> "", with |-> <<>>,
     env |-> env, run |-> run, inline |-> <<>>]

StepNotFound(name) == [kind |-> "KeyError", msg |-> "Step not found", name |-> name]

Found(step) == [kind |-> "ok", step |-> step]

\* a bug: a step that is not there is made up
find_step_or_empty(steps, name) ==
    IF \E i \in 1..Len(steps) : steps[i].name = name
    THEN Found(steps[CHOOSE i \in 1..Len(steps) :
                        /\ steps[i].name = name
                        /\ \A j \in 1..(i - 1) : steps[j].name # name])
    ELSE Found(Step(name, Env(<<>>), <<>>))

\* find_step(steps, name): the first step called name, or KeyError
find_step(steps, name) ==
    IF \E i \in 1..Len(steps) : steps[i].name = name
    THEN Found(steps[CHOOSE i \in 1..Len(steps) :
                        /\ steps[i].name = name
                        /\ \A j \in 1..(i - 1) : steps[j].name # name])
    ELSE StepNotFound(name)

TOKEN_CHAIN ==
    "${{ steps.app-token.outputs.token || secrets.RDB_PAT_TOKEN || github.token }}"

\* the pieces of text the compiler looks for or writes
NEEDS_REF == "needs.parse.outputs."

STEPS_REF == "steps.parse.outputs."

LOAD_HEAD == "# Load prompt_prefix from config"

BREAK == "break\n"

CONFIG_PATH_LINE ==
    "config_path = \".remote-dev-bot/lib/../remote-dev-bot.yaml\"\n"

CONTEXT_FILES_LOAD ==
    "context_files = json.loads(os.environ.get(\"CONTEXT_FILES\", \"[]\") or \"[]\")"

\* step["env"][key] = value, for a step; KeyError when it has no env
set_env(step, key, value) ==
    IF ~step.env.set
    THEN [kind |-> "KeyError", msg |-> "env", name |-> step.name]
    ELSE Found([step EXCEPT !.env = Env((key :> value) @@ step.env.map)])

\* {k: v for k, v in step["env"].items() if k != key}
without_env(step, key) ==
    IF ~step.env.set
    THEN [kind |-> "KeyError", msg |-> "env", name |-> step.name]
    ELSE Found([step EXCEPT !.env =
                   Env([k \in DOMAIN step.env.map \ {key} |-> step.env.map[k]])])

\* rewrite(obj) for a string
rewrite_str(piece) == IF piece = NEEDS_REF THEN STEPS_REF ELSE piece

\* rewrite(obj) for the text of run, piece by piece
rewrite_run(run) ==
    [i \in 1..Len(run) |-> rewrite_str(run[i])]

\* _rewrite_needs_refs(steps)
rewrite_needs_refs(steps) ==
    [i \in 1..Len(steps) |->
        [steps[i] EXCEPT
            !.run = rewrite_run(@),
            !.env = [set |-> @.set,
                     map |-> [k \in DOMAIN @.map |-> rewrite_str(@.map[k])]]]]

DEFAULT_ROLES == "[\"OWNER\",\"COLLABORATOR\",\"MEMBER\"]"

\* the value of jobs.resolve.if in the shim: the key is absent (or the job
\* is), or its value is a string, or YAML has read it as a boolean (if: true).
\* The text of a string is a sequence of calls; the call fromJson('<arg>')
\* has the shape the compiler looks for when <arg> is a list on one line.
IfAbsent == [t |-> "absent", text |-> <<>>]

IfStr(text) == [t |-> "str", text |-> text]

IfBool == [t |-> "bool", text |-> <<>>]

FromJson(arg, oneline) == [fn |-> "fromJson", arg |-> arg, oneline |-> oneline]

Call(fn) == [fn |-> fn, arg |-> "", oneline |-> TRUE]

\* the shim: its "on", its permissions and the "if" of its resolve job
Shim(cond) == [on |-> "on", permissions |-> "permissions", cond |-> cond]

\* re.search(r'fromJson\(\'(\[.*?\])\'\)', if_condition): the position of the
\* first match, or 0 ('.' does not match a line break)
re_search(text) ==
    LET hits == {i \in 1..Len(text) : text[i].fn = "fromJson" /\ text[i].oneline}
    IN  IF hits = {} THEN 0 ELSE CHOOSE i \in hits : \A j \in hits : i <= j

NotAString ==
    [kind |-> "TypeError", msg |-> "expected string or bytes-like object",
     name |-> ""]

\* extract_security_gate(shim)
extract_security_gate(shim) ==
    IF shim.cond.t = "bool"
    THEN NotAString
    ELSE LET if_condition == shim.cond.text
             match == re_search(if_condition)
         IN  IF match # 0
             THEN [kind |-> "ok", roles |-> if_condition[match].arg]
             ELSE [kind |-> "ok", roles |-> DEFAULT_ROLES]

RECURSIVE escape_literal(_)

\* s.replace('\\', '\\\\').replace('"', '\\"')
escape_literal(s) ==
    IF s = <<>>
    THEN <<>>
    ELSE (IF Head(s) \in {"\\", "\""} THEN <<"\\", Head(s)>> ELSE <<Head(s)>>)
         \o escape_literal(Tail(s))

t_main == <<"m", "a", "i", "n">>

t_target_branch ==
    <<"t", "a", "r", "g", "e", "t", "_", "b", "r", "a", "n", "c", "h">>

INLINE_PARSER == "python3 << 'PYTHON_EOF' ... PYTHON_EOF"

\* inline_config_parsing(config_yaml, mode): the values baked into the
\* inline parser, for the document config_yaml
inline_config_parsing(config_yaml, mode) ==
    LET modes_config == dict_get(config_yaml.v, s_modes, Map(<<>>))
        mode_config  == dict_get(modes_config.v, mode, Map(<<>>))
        models       == dict_get(config_yaml.v, s_models, Map(<<>>))
        oh           == dict_get(config_yaml.v, s_openhands, Map(<<>>))
    IN  [mode |-> mode,
         models |-> [i \in 1..Len(models.v) |->
                        [alias |-> models.v[i].k,
                         id |-> get_item(models.v[i].v.v, s_id)]],
         default_model |->
             dict_get(mode_config.v, s_default_model,
                      dict_get(config_yaml.v, s_default_model,
                               Str(s_claude_small))),
         max_iterations |-> dict_get(oh.v, s_max_iterations, Num(50)),
         oh_version |-> dict_get(oh.v, s_version, Str(t_1_3_0)),
         pr_type |-> dict_get(oh.v, s_pr_type, Str(s_ready)),
         on_failure |-> dict_get(oh.v, t_on_failure, Str(t_comment)),
         target_branch |-> dict_get(oh.v, t_target_branch, Str(t_main)),
         commit_trailer |->
             escape_literal(dict_get(config_yaml.v, s_commit_trailer,
                                     Str(<<>>)).v)]

\* build_base_job(security_roles, trigger_prefix)
build_base_job(security_roles, trigger_prefix) ==
    [runs_on |-> "ubuntu-latest",
     cond |-> [prefix |-> trigger_prefix, roles |-> security_roles]]

\* the synthesized steps
AppTokenStep ==
    [Step("Generate app token", NoEnv, <<>>) EXCEPT
        !.cond = "vars.RDB_APP_ID != ''",
        !.uses = "actions/create-github-app-token@v1",
        !.id = "app-token",
        !.with = [app_id |-> "${{ vars.RDB_APP_ID }}",
                  private_key |-> "${{ secrets.RDB_APP_PRIVATE_KEY }}"]]

CheckoutStep ==
    [Step("Checkout repository", NoEnv, <<>>) EXCEPT
        !.uses = "actions/checkout@v4",
        !.with = [token |-> TOKEN_CHAIN]]

ParseStep(config_yaml, mode) ==
    [Step("Parse config and model alias",
          Env([COMMENT |-> "${{ github.event.comment.body }}"]),
          <<INLINE_PARSER>>) EXCEPT
        !.id = "parse",
        !.inline = inline_config_parsing(config_yaml, mode)]

PREFIX_ASSIGN == "prompt_prefix = \"...\"\n"

CONTEXT_FILES_LITERAL == "context_files = [...]"

RECURSIVE escape_prefix(_)

\* prompt_prefix.replace('\\', '\\\\').replace('"', '\\"').replace('\n', '\\n')
escape_prefix(s) ==
    IF s = <<>>
    THEN <<>>
    ELSE (IF Head(s) \in {"\\", "\""} THEN <<"\\", Head(s)>>
          ELSE IF Head(s) = "\n" THEN <<"\\", "n">>
          ELSE <<Head(s)>>)
         \o escape_prefix(Tail(s))

\* the position of the first "break\n" after position i, or 0
first_break(run, i) ==
    IF \E j \in (i + 1)..Len(run) : run[j] = BREAK
    THEN CHOOSE j \in (i + 1)..Len(run) :
             /\ run[j] = BREAK
             /\ \A m \in (i + 1)..(j - 1) : run[m] # BREAK
    ELSE 0

RECURSIVE sub_load_block(_, _)

\* re.sub(r'# Load prompt_prefix from config.*?break\n', replacement, run,
\* flags=re.DOTALL) from piece i on
sub_load_block(run, i) ==
    IF i > Len(run)
    THEN <<>>
    ELSE IF run[i] = LOAD_HEAD /\ first_break(run, i) # 0
    THEN <<PREFIX_ASSIGN>> \o sub_load_block(run, first_break(run, i) + 1)
    ELSE <<run[i]>> \o sub_load_block(run, i + 1)

\* run.replace(old, new) for whole pieces; new = "" removes the piece
replace_piece(run, old, new) ==
    LET kept == SelectSeq(run, LAMBDA piece : new # "" \/ piece # old)
    IN  [i \in 1..Len(kept) |-> IF kept[i] = old THEN new ELSE kept[i]]

\* lines 419-452 of compile_design: the LLM step with the prompt prefix
\* and the context files inlined
inline_llm_step(step, config_yaml) ==
    LET modes_config  == dict_get(config_yaml.v, s_modes, Map(<<>>))
        design_config == dict_get(modes_config.v, t_design, Map(<<>>))
        prompt_prefix == dict_get(design_config.v, s_prompt_prefix, Str(<<>>))
        context_files == dict_get(design_config.v, s_context_files, List(<<>>))
        llm_run == replace_piece(
                       replace_piece(sub_load_block(step.run, 1),
                                     CONFIG_PATH_LINE, ""),
                       CONTEXT_FILES_LOAD, CONTEXT_FILES_LITERAL)
    IN  [step EXCEPT
            !.run = llm_run,
            !.inline = [prompt_prefix |-> escape_prefix(prompt_prefix.v),
                        context_files |-> context_files],
            !.env = IF @.set
                    THEN Env([k \in DOMAIN @.map \ {"CONTEXT_FILES"} |-> @.map[k]])
                    ELSE @]

\* what the compiler does to a step it has looked up
Synth(step) == [kind |-> "new", step |-> step]

Lookup(job, name, edit) == [kind |-> "find", job |-> job, name |-> name, edit |-> edit]

edit_step(step, edit, config_yaml) ==
    IF edit = "GH_TOKEN" THEN set_env(step, "GH_TOKEN", TOKEN_CHAIN)
    ELSE IF edit = "GITHUB_TOKEN" THEN set_env(step, "GITHUB_TOKEN", TOKEN_CHAIN)
    ELSE IF edit = "strip_canary"
    THEN LET stripped == without_env(step, "SANDBOX_ENV_E2E_TEST_TOKEN")
         IN  IF stripped.kind # "ok"
             THEN stripped
             ELSE set_env(stripped.step, "GITHUB_TOKEN", TOKEN_CHAIN)
    ELSE IF edit = "llm" THEN Found(inline_llm_step(step, config_yaml))
    ELSE Found(step)

\* a bug: two steps of compile_resolve are appended in the other order
resolve_plan_swapped(config_yaml) ==
    <<Synth(AppTokenStep),
      Synth(CheckoutStep),
      Lookup("resolve", "Set up Python", "copy"),
      Synth(ParseStep(config_yaml, t_resolve)),
      Lookup("resolve", "Determine API key", "copy"),
      Lookup("parse", "React to comment", "GH_TOKEN"),
      Lookup("parse", "Assign commenter to issue", "GH_TOKEN"),
      Lookup("resolve", "Inject security guardrails", "copy"),
      Lookup("resolve", "Install OpenHands", "copy"),
      Lookup("resolve", "Resolve issue", "strip_canary"),
      Lookup("resolve", "Create pull request", "GITHUB_TOKEN"),
      Lookup("resolve", "Amend commit with model info", "copy"),
      Lookup("resolve", "Upload output artifact", "copy"),
      Lookup("resolve", "Calculate and post cost", "GH_TOKEN")>>

\* lines 256-327 of compile_resolve: the steps in the order of their
\* append calls
resolve_plan(config_yaml) ==
    <<Synth(AppTokenStep),
      Synth(CheckoutStep),
      Lookup("resolve", "Set up Python", "copy"),
      Synth(ParseStep(config_yaml, t_resolve)),
      Lookup("resolve", "Determine API key", "copy"),
      Lookup("parse", "React to comment", "GH_TOKEN"),
      Lookup("parse", "Assign commenter to issue", "GH_TOKEN"),
      Lookup("resolve", "Install OpenHands", "copy"),
      Lookup("resolve", "Inject security guardrails", "copy"),
      Lookup("resolve", "Resolve issue", "strip_canary"),
      Lookup("resolve", "Create pull request", "GITHUB_TOKEN"),
      Lookup("resolve", "Amend commit with model info", "copy"),
      Lookup("resolve", "Upload output artifact", "copy"),
      Lookup("resolve", "Calculate and post cost", "GH_TOKEN")>>

\* lines 367-463 of compile_design
design_plan(config_yaml) ==
    <<Synth(AppTokenStep),
      Synth(CheckoutStep),
      Lookup("design", "Set up Python", "copy"),
      Synth(ParseStep(config_yaml, t_design)),
      Lookup("design", "Determine API key", "copy"),
      Lookup("parse", "React to comment", "GH_TOKEN"),
      Lookup("parse", "Assign commenter to issue", "GH_TOKEN"),
      Lookup("design", "Install dependencies", "copy"),
      Lookup("design", "Gather issue context", "GH_TOKEN"),
      Lookup("design", "Call LLM for design analysis", "llm"),
      Lookup("design", "Post comment", "GH_TOKEN"),
      Lookup("design", "Post cost comment", "GH_TOKEN")>>

\* the generic definition after the edit of a copied step: step.copy()
\* shares the env of the step, so step["env"][key] = value and
\* del step["env"][key] change the first step of that name in the
\* definition; the env built anew for "Resolve issue" (lines 307-309) and
\* the run text assigned to the copy (line 449) belong to the copy alone
shared_env(workflow, entry, edited) ==
    LET steps == workflow[entry.job]
        at    == {i \in 1..Len(steps) :
                     /\ steps[i].name = entry.name
                     /\ \A j \in 1..(i - 1) : steps[j].name # entry.name}
    IN  IF entry.edit \in {"GH_TOKEN", "GITHUB_TOKEN", "llm"} /\ at # {}
        THEN [workflow EXCEPT
                 ![entry.job] = [i \in 1..Len(steps) |->
                                    IF i \in at
                                    THEN [steps[i] EXCEPT !.env = edited.env]
                                    ELSE steps[i]]]
        ELSE workflow

BuildFailed(error, workflow, steps) ==
    [kind |-> error.kind, error |-> error, workflow |-> workflow,
     steps |-> steps]

RECURSIVE build_steps(_, _, _, _, _)

\* the appends of plan from entry i on, after steps; the first lookup or
\* env access that raises ends the compilation.  The result holds the
\* steps and the generic definition as the compilation has left it.
build_steps(workflow, config_yaml, plan, i, steps) ==
    IF i > Len(plan)
    THEN [kind |-> "ok", steps |-> steps, workflow |-> workflow]
    ELSE IF plan[i].kind = "new"
    THEN build_steps(workflow, config_yaml, plan, i + 1,
                     Append(steps, plan[i].step))
    ELSE LET found == find_step(workflow[plan[i].job], plan[i].name)
         IN  IF found.kind # "ok"
             THEN BuildFailed(found, workflow, steps)
             ELSE LET edited == edit_step(found.step, plan[i].edit, config_yaml)
                  IN  IF edited.kind # "ok"
                      THEN BuildFailed(edited, workflow, steps)
                      ELSE build_steps(
                               shared_env(workflow, plan[i], edited.step),
                               config_yaml, plan, i + 1,
                               Append(steps, edited.step))

\* the artifact of a mode: the header comment and the dumped workflow,
\* with the SECURITY_GATE comment that names the roles
Artifact(title, name, shim, job_id, job, security_roles) ==
    [header |-> title, name |-> name, on |-> shim.on,
     permissions |-> shim.permissions, job_id |-> job_id, job |-> job,
     gate_comment |-> security_roles]

\* with open(output_path, "w") as f: f.write(...), in the set of files
write_file(files, path, text) ==
    {f \in files : f.path # path} \cup {[path |-> path, text |-> text]}

\* lines 250 and 330-351, 356 and 466-487: the roles extracted first, then
\* the steps built, the references to the parse job rewritten, the job and
\* the artifact put together and written
emit(shim, built, title, name, job_id, prefix, output_path, files) ==
    IF extract_security_gate(shim).kind # "ok"
    THEN [kind |-> extract_security_gate(shim).kind,
          cause |-> extract_security_gate(shim), files |-> files]
    ELSE IF built.kind # "ok"
    THEN [kind |-> built.kind, cause |-> built.error, files |-> files]
    ELSE LET security_roles == extract_security_gate(shim).roles
             job == build_base_job(security_roles, prefix)
                        @@ [steps |-> rewrite_needs_refs(built.steps)]
         IN  [kind |-> "ok", cause |-> built,
              files |-> write_file(files, output_path,
                                   Artifact(title, name, shim, job_id, job,
                                            security_roles))]

\* the generic definition a compilation leaves in memory: untouched when
\* the roles could not be extracted (lines 250, 356 come first), and as
\* the steps handled up to the return or the raise have left it otherwise
left_in_memory(shim, workflow, built) ==
    IF extract_security_gate(shim).kind # "ok"
    THEN workflow
    ELSE built.workflow

\* compile_resolve(shim, workflow, config_yaml, output_path), with the
\* files there are
compile_resolve(shim, workflow, config_yaml, output_path, files) ==
    LET built == build_steps(workflow, config_yaml, resolve_plan(config_yaml),
                             1, <<>>)
    IN  emit(shim, built, "Resolve", "Remote Dev Bot - Resolve (Compiled)",
             "resolve", "/agent-resolve", output_path, files)
        @@ [workflow |-> left_in_memory(shim, workflow, built)]

\* compile_design(shim, workflow, config_yaml, output_path)
compile_design(shim, workflow, config_yaml, output_path, files) ==
    LET built == build_steps(workflow, config_yaml, design_plan(config_yaml),
                             1, <<>>)
    IN  emit(shim, built, "Design", "Remote Dev Bot - Design (Compiled)",
             "design", "/agent-design", output_path, files)
        @@ [workflow |-> left_in_memory(shim, workflow, built)]

SHIM_PATH == ".github/workflows/agent.yml"

WORKFLOW_PATH == ".github/workflows/resolve.yml"

CONFIG_PATH == "remote-dev-bot.yaml"

NotFound(path) ==
    [kind |-> "ERROR", msg |-> "Required file not found", path |-> path]

\* a bug: a source that is missing is read as an empty document
load_yaml_lenient(path, file) ==
    IF file.kind # "missing"
    THEN [kind |-> "ok", data |-> file.doc]
    ELSE IF path = SHIM_PATH
    THEN [kind |-> "ok", data |-> Shim(IfAbsent)]
    ELSE IF path = WORKFLOW_PATH
    THEN [kind |-> "ok",
          data |-> [parse |-> <<>>, resolve |-> <<>>, design |-> <<>>]]
    ELSE [kind |-> "ok", data |-> Map(<<>>)]

\* load_yaml(path), for what the file at path holds
load_yaml(path, file) ==
    IF file.kind = "missing"
    THEN [kind |-> "exit", error |-> NotFound(path)]
    ELSE [kind |-> "ok", data |-> file.doc]

Exited(status, stderr, stdout, files, dirs) ==
    [exit |-> status, stderr |-> stderr, stdout |-> stdout, files |-> files,
     dirs |-> dirs]

Traceback(cause) == [kind |-> "Traceback", msg |-> cause.msg, cause |-> cause]

\* main of compile.py with argv[1] = output_dir, the three source files
\* and the files there are; the output directory is made first
compile_main(output_dir, shim_file, workflow_file, config_file, files) ==
    LET dirs     == {output_dir}
        shim     == load_yaml(SHIM_PATH, shim_file)
        workflow == load_yaml(WORKFLOW_PATH, workflow_file)
        config   == load_yaml(CONFIG_PATH, config_file)
    IN  IF shim.kind # "ok" THEN Exited(1, shim.error, <<>>, files, dirs)
        ELSE IF workflow.kind # "ok" THEN Exited(1, workflow.error, <<>>, files, dirs)
        ELSE IF config.kind # "ok" THEN Exited(1, config.error, <<>>, files, dirs)
        ELSE
        LET resolve_path == <<output_dir, "agent-resolve.yml">>
            design_path  == <<output_dir, "agent-design.yml">>
            resolved == compile_resolve(shim.data, workflow.data, config.data,
                                        resolve_path, files)
        IN  IF resolved.kind # "ok"
            THEN Exited(1, Traceback(resolved.cause), <<>>, resolved.files, dirs)
            ELSE
            LET designed == compile_design(shim.data, resolved.workflow,
                                           config.data, design_path,
                                           resolved.files)
            IN  IF designed.kind # "ok"
                THEN Exited(1, Traceback(designed.cause),
                            <<resolve_path>>, designed.files, dirs)
                ELSE Exited(0, [kind |-> ""],
                            <<resolve_path, design_path>>, designed.files, dirs)

(***************************************************************************)
(* Specification of the compiler: one run of main.  The generic            *)
(* definition is the one the compiler was written for, or that definition  *)
(* after at most MaxEdits edits: a step inserted, removed, renamed, moved  *)
(* past its neighbour, doubled under the same name, given a line of text   *)
(* that names the checkout path or the source repository, left without     *)
(* env, or given the ambient token as GH_TOKEN.  args holds the output     *)
(* directory, the three source files and the files there are.              *)
(***************************************************************************)
MaxEdits == 1

PATH_REF == "python3 .remote-dev-bot/lib/..."

REPO_REF == "repository: gnovak/remote-dev-bot"

AMBIENT_TOKEN == "${{ github.token }}"

GenericStep(name) ==
    Step(name, Env([MODEL |-> NEEDS_REF]), <<name, NEEDS_REF>>)

ResolveIssueStep ==
    Step("Resolve issue",
         Env([GITHUB_TOKEN |-> AMBIENT_TOKEN,
              SANDBOX_ENV_E2E_TEST_TOKEN |-> "${{ secrets.E2E_TEST_TOKEN }}",
              LLM_MODEL |-> NEEDS_REF]),
         <<"Resolve issue">>)

LlmStep ==
    Step("Call LLM for design analysis",
         Env([CONTEXT_FILES |-> NEEDS_REF, MODEL |-> NEEDS_REF]),
         <<"import", LOAD_HEAD, CONFIG_PATH_LINE, PATH_REF, BREAK,
           CONTEXT_FILES_LOAD, "call">>)

\* the generic definition the compiler was written for
GenericWorkflow ==
    [parse |->
        <<GenericStep("React to comment"),
          GenericStep("Assign commenter to issue")>>,
     resolve |->
        <<GenericStep("Set up Python"), GenericStep("Determine API key"),
          GenericStep("Install OpenHands"),
          GenericStep("Inject security guardrails"), ResolveIssueStep,
          GenericStep("Create pull request"),
          GenericStep("Amend commit with model info"),
          GenericStep("Upload output artifact"),
          GenericStep("Calculate and post cost")>>,
     design |->
        <<GenericStep("Set up Python"), GenericStep("Determine API key"),
          GenericStep("Install dependencies"),
          GenericStep("Gather issue context"), LlmStep,
          GenericStep("Post comment"), GenericStep("Post cost comment")>>]

Jobs == {"parse", "resolve", "design"}

InsertAt(steps, p, step) ==
    SubSeq(steps, 1, p) \o <<step>> \o SubSeq(steps, p + 1, Len(steps))

RemoveAt(steps, p) == SubSeq(steps, 1, p - 1) \o SubSeq(steps, p + 1, Len(steps))

SwapAt(steps, p) ==
    [i \in 1..Len(steps) |->
        IF i = p THEN steps[p + 1] ELSE IF i = p + 1 THEN steps[p] ELSE steps[i]]

\* the sequences of steps one edit away from steps
EditsOf(steps) ==
    {InsertAt(steps, p, GenericStep("Extra step")) : p \in 0..Len(steps)}
    \cup {RemoveAt(steps, p) : p \in 1..Len(steps)}
    \cup {SwapAt(steps, p) : p \in 1..(Len(steps) - 1)}
    \cup {[steps EXCEPT ![p].name = "Renamed step"] : p \in 1..Len(steps)}
    \cup {InsertAt(steps, p, Step(steps[p].name, Env(<<>>), <<"twin">>)) :
             p \in 1..Len(steps)}
    \cup {[steps EXCEPT ![p].run = Append(@, piece)] :
             p \in 1..Len(steps), piece \in {PATH_REF, REPO_REF}}
    \cup {[steps EXCEPT ![p].env = NoEnv] : p \in 1..Len(steps)}
    \cup {[steps EXCEPT ![p].env = Env(("GH_TOKEN" :> AMBIENT_TOKEN) @@ @.map)] :
             p \in {q \in 1..Len(steps) : steps[q].env.set}}

RECURSIVE Workflows(_)

Workflows(n) ==
    IF n = 0
    THEN {GenericWorkflow}
    ELSE Workflows(n - 1) \cup
         UNION {{[w EXCEPT ![job] = steps] : steps \in EditsOf(w[job])} :
                   w \in Workflows(n - 1), job \in Jobs}

GATE_ROLES == "[\"OWNER\"]"

ACTION_LIST == "[\"created\"]"

GateCall == FromJson(GATE_ROLES, TRUE)

\* the shims: no "if", an "if" without the shape, with it, with a list that
\* spans two lines, with two lists, and "if: true"
ShimConds ==
    {IfAbsent, IfStr(<<Call("startsWith")>>),
     IfStr(<<Call("startsWith"), GateCall>>),
     IfStr(<<FromJson(GATE_ROLES, FALSE)>>),
     IfStr(<<GateCall, FromJson(ACTION_LIST, TRUE)>>),
     IfBool}

ShimFiles == {Missing} \cup {Yaml(Shim(cond)) : cond \in ShimConds}

CompilerConfigs == {Missing, Yaml(DocFull), Yaml(DocMinimal)}

OldFiles ==
    {{}, {[path |-> <<"dist", "agent-resolve.yml">>, text |-> [header |-> "Old"]]}}

InitCompile ==
    /\ locals = Idle
    /\ calls = <<>>
    /\ pc = "compile"
    /\ \/ args \in [output_dir : {"dist"},
                     shim : ShimFiles,
                     workflow : {Missing, Yaml(GenericWorkflow)},
                     config : CompilerConfigs,
                     files : OldFiles]
       \/ args \in [output_dir : {"dist"},
                     shim : {Yaml(Shim(IfStr(<<GateCall>>)))},
                     workflow : {Yaml(w) : w \in Workflows(MaxEdits)},
                     config : {Yaml(DocFull)},
                     files : {{}}]
    /\ result = Idle
    /\ heap = <<>>
    /\ base = 0
    /\ override = 0
    /\ command_string = Idle
    /\ known_modes = {}
    /\ base_path = Idle
    /\ override_path = Idle
    /\ local_path = Idle

Compile ==
    /\ pc = "compile"
    /\ result' = compile_main(args.output_dir, args.shim, args.workflow,
                              args.config, args.files)
    /\ pc' = "done"
    /\ UNCHANGED <<locals, calls, heap, base, override, command_string, known_modes,
                   base_path, override_path, local_path, args>>

NextCompile == Compile

SpecCompile == InitCompile /\ [][NextCompile]_vars

\* the artifacts written by the run
Written == result.files \ args.files

StepNames(steps) == [i \in 1..Len(steps) |-> steps[i].name]

t_checkout_path ==
    <<".", "r", "e", "m", "o", "t", "e", "-", "d", "e", "v", "-", "b", "o", "t">>

t_source_repo ==
    <<"g", "n", "o", "v", "a", "k", "/", "r", "e", "m", "o", "t", "e", "-",
      "d", "e", "v", "-", "b", "o", "t">>

Contains(text, part) ==
    \E i \in 0..(Len(text) - Len(part)) :
        SubSeq(text, i + 1, i + Len(part)) = part

\* the pieces of text that name the checkout path or the source repository
CrossRepoPieces == {PATH_REF, CONFIG_PATH_LINE, REPO_REF}

\* the strings baked into the inline parser of a step
InlineStrings(step) ==
    IF "models" \in DOMAIN step.inline
    THEN {step.inline.commit_trailer, step.inline.default_model.v}
         \cup UNION {{step.inline.models[i].alias, step.inline.models[i].id.v} :
                        i \in 1..Len(step.inline.models)}
    ELSE {}

StepHasCrossRepoReference(step) ==
    \/ \E i \in 1..Len(step.run) : step.run[i] \in CrossRepoPieces
    \/ \E k \in DOMAIN step.env.map : step.env.map[k] \in CrossRepoPieces
    \/ \E text \in InlineStrings(step) :
          Contains(text, t_checkout_path) \/ Contains(text, t_source_repo)

\* C16: the artifact written for mode resolve and the one written for mode
\* design contain neither the checkout path '.remote-dev-bot' nor the
\* repository identifier 'gnovak/remote-dev-bot', in any step, synthesized
\* or copied from the generic definition.
C16_NoCrossRepoReference ==
    pc = "done" =>
        \A f \in Written :
            \A i \in 1..Len(f.text.job.steps) :
                ~StepHasCrossRepoReference(f.text.job.steps[i])

ExpectedResolveSteps ==
    <<"Generate app token", "Checkout repository", "Set up Python",
      "Parse config and model alias", "Determine API key", "React to comment",
      "Assign commenter to issue", "Install OpenHands",
      "Inject security guardrails", "Resolve issue", "Create pull request",
      "Amend commit with model info", "Upload output artifact",
      "Calculate and post cost">>

ExpectedDesignSteps ==
    <<"Generate app token", "Checkout repository", "Set up Python",
      "Parse config and model alias", "Determine API key", "React to comment",
      "Assign commenter to issue", "Install dependencies",
      "Gather issue context", "Call LLM for design analysis", "Post comment",
      "Post cost comment">>

ExpectedSteps(job_id) ==
    IF job_id = "resolve" THEN ExpectedResolveSteps ELSE ExpectedDesignSteps

WrittenFor(job_id) == {f \in Written : f.text.job_id = job_id}

\* C17: whenever the compilation of a mode succeeds, the step names of its
\* artifact are exactly the mode's fixed list, in that order, wherever the
\* steps stand in the generic definition.
C17_StepSequence ==
    pc = "done" =>
        /\ \A f \in Written :
              StepNames(f.text.job.steps) = ExpectedSteps(f.text.job_id)
        /\ result.exit = 0 =>
              WrittenFor("resolve") # {} /\ WrittenFor("design") # {}

\* with two steps of the resolve job in the other order both artifacts
\* were written with the fixed lists
C17_Witness ==
    /\ pc = "done"
    /\ args.workflow.kind = "yaml"
    /\ args.workflow.doc.resolve = SwapAt(GenericWorkflow.resolve, 3)
    /\ result.exit = 0
    /\ \E f \in WrittenFor("resolve") :
          StepNames(f.text.job.steps) = ExpectedResolveSteps
    /\ \E f \in WrittenFor("design") :
          StepNames(f.text.job.steps) = ExpectedDesignSteps

\* the step names of some job are not those of the definition the compiler
\* was written for: a step was inserted, removed or moved
Drifted ==
    /\ args.workflow.kind = "yaml"
    /\ \E job \in Jobs :
          StepNames(args.workflow.doc[job]) # StepNames(GenericWorkflow[job])

\* C18: a generic definition with a step inserted, removed or reordered is
\* detected: the compilation fails or the step names of an artifact differ
\* from the mode's expected list.
C18_DriftDetected ==
    (pc = "done" /\ Drifted /\ args.shim # Missing /\ args.config # Missing) =>
        \/ result.exit # 0
        \/ \E f \in Written :
              StepNames(f.text.job.steps) # ExpectedSteps(f.text.job_id)

SynthesizedNames ==
    {"Generate app token", "Checkout repository", "Parse config and model alias"}

\* the job of the generic definition a mode takes the step called name from
JobOf(job_id, name) ==
    IF name \in {"React to comment", "Assign commenter to issue"}
    THEN "parse"
    ELSE job_id

HasStep(workflow, job, name) ==
    \E i \in 1..Len(workflow[job]) : workflow[job][i].name = name

\* the positions in the mode's list of the steps its job no longer has
MissingAt(workflow, job_id) ==
    {i \in 1..Len(ExpectedSteps(job_id)) :
        /\ ExpectedSteps(job_id)[i] \notin SynthesizedNames
        /\ ~HasStep(workflow, JobOf(job_id, ExpectedSteps(job_id)[i]),
                    ExpectedSteps(job_id)[i])}

FirstMissing(workflow, job_id) ==
    ExpectedSteps(job_id)[CHOOSE i \in MissingAt(workflow, job_id) :
                              \A j \in MissingAt(workflow, job_id) : i <= j]

\* every step of the generic definition has an env
AllWithEnv(workflow) ==
    \A job \in Jobs : \A i \in 1..Len(workflow[job]) : workflow[job][i].env.set

NameFailure(name) ==
    /\ result.exit = 1
    /\ result.stderr.kind = "Traceback"
    /\ result.stderr.cause = [kind |-> "KeyError", msg |-> "Step not found",
                              name |-> name]

AllNames ==
    {ExpectedResolveSteps[i] : i \in 1..Len(ExpectedResolveSteps)}
    \cup {ExpectedDesignSteps[i] : i \in 1..Len(ExpectedDesignSteps)}
    \cup {"Extra step", "Renamed step"}

\* C19: find_step returns the first step with the name asked for and raises
\* KeyError with the name when there is none; when a step a mode refers to
\* is gone from the generic definition, the compilation of that mode fails
\* with this error and writes no artifact.
C19_StepLookup ==
    (pc = "done" /\ args.workflow.kind = "yaml") =>
        LET w == args.workflow.doc
        IN  /\ \A job \in Jobs, name \in AllNames :
                  LET found == find_step(w[job], name)
                  IN  IF HasStep(w, job, name)
                      THEN /\ found.kind = "ok"
                           /\ \E i \in 1..Len(w[job]) :
                                 /\ found.step = w[job][i]
                                 /\ w[job][i].name = name
                                 /\ \A j \in 1..(i - 1) : w[job][j].name # name
                      ELSE /\ found.kind = "KeyError"
                           /\ found.name = name
            /\ (AllWithEnv(w) /\ args.shim # Missing /\ args.config # Missing) =>
                  /\ MissingAt(w, "resolve") # {} =>
                        /\ NameFailure(FirstMissing(w, "resolve"))
                        /\ Written = {}
                  /\ (MissingAt(w, "resolve") = {} /\ MissingAt(w, "design") # {}) =>
                        /\ NameFailure(FirstMissing(w, "design"))
                        /\ WrittenFor("design") = {}

\* without "Install OpenHands" in the resolve job the run ended with the
\* KeyError that names the step and wrote nothing
C19_Witness ==
    /\ pc = "done"
    /\ args.workflow.kind = "yaml"
    /\ args.workflow.doc.resolve = RemoveAt(GenericWorkflow.resolve, 3)
    /\ NameFailure("Install OpenHands")
    /\ result.files = {}

SourcePaths == <<SHIM_PATH, WORKFLOW_PATH, CONFIG_PATH>>

Sources == <<args.shim, args.workflow, args.config>>

\* C20: when one of the three sources is missing, main prints the error
\* that names a missing path (the first it tries to load), exits with a
\* non-zero status and has written no artifact.
C20_MissingSource ==
    (pc = "done" /\ \E i \in 1..3 : Sources[i] = Missing) =>
        /\ result.exit # 0
        /\ result.stderr.kind = "ERROR"
        /\ result.stderr.msg = "Required file not found"
        /\ \E i \in 1..3 :
              /\ Sources[i] = Missing
              /\ \A j \in 1..(i - 1) : Sources[j] # Missing
              /\ result.stderr.path = SourcePaths[i]
        /\ result.files = args.files

\* with the generic workflow missing, main named its path, exited with 1
\* and left the artifact of an earlier run as it was
C20_Witness ==
    /\ pc = "done"
    /\ args.shim # Missing
    /\ args.workflow = Missing
    /\ args.files # {}
    /\ result.exit = 1
    /\ result.stderr.path = WORKFLOW_PATH
    /\ result.files = args.files

ResolvePath == <<args.output_dir, "agent-resolve.yml">>

DesignPath == <<args.output_dir, "agent-design.yml">>

WrittenPaths == {f.path : f \in Written}

\* C21: a run of the compiler writes an artifact for both modes or writes no
\* artifact at all; when the compilation of the design mode fails,
\* agent-resolve.yml has not been written.
C21_NoPartialOutput ==
    pc = "done" =>
        \/ WrittenPaths = {}
        \/ WrittenPaths = {ResolvePath, DesignPath}

TokenKeys == {"GH_TOKEN", "GITHUB_TOKEN"}

\* every use of a token in the step carries the three-way fallback chain
UsesTokenChain(step) ==
    /\ step.name = "Checkout repository" => step.with.token = TOKEN_CHAIN
    /\ \A k \in DOMAIN step.env.map \cap TokenKeys :
          step.env.map[k] = TOKEN_CHAIN

\* C22: in every artifact written, the token input of the checkout step and
\* every GH_TOKEN or GITHUB_TOKEN entry of the env of every step equal the
\* three-way fallback chain; no copied step keeps the token value it had in
\* the generic definition.
C22_TokenFallback ==
    pc = "done" =>
        \A f \in Written :
            \A i \in 1..Len(f.text.job.steps) :
                UsesTokenChain(f.text.job.steps[i])

SourcesPresent == \A i \in 1..3 : Sources[i] # Missing

GatePrefix(job_id) ==
    IF job_id = "resolve" THEN "/agent-resolve" ELSE "/agent-design"

\* the allow-list the compiled job is to have: the first one-line list of
\* the shim's predicate, or the conservative default
ExpectedRoles(cond) ==
    IF \E i \in 1..Len(cond.text) :
           cond.text[i].fn = "fromJson" /\ cond.text[i].oneline
    THEN LET i == CHOOSE i \in 1..Len(cond.text) :
                      /\ cond.text[i].fn = "fromJson" /\ cond.text[i].oneline
                      /\ \A j \in 1..(i - 1) :
                            ~(cond.text[j].fn = "fromJson" /\ cond.text[j].oneline)
         IN  cond.text[i].arg
    ELSE "[\"OWNER\",\"COLLABORATOR\",\"MEMBER\"]"

ExtractionRaised ==
    /\ result.stderr.kind = "Traceback"
    /\ result.stderr.cause.kind # "KeyError"

\* C23: the job of the artifact of mode M is gated by the prefix '/agent-M'
\* and by the allow-list found in the shim's jobs.resolve.if, or the default
\* ["OWNER","COLLABORATOR","MEMBER"] when the shape is not found; the
\* extraction of the allow-list never raises.
C23_SecurityGate ==
    (pc = "done" /\ SourcesPresent) =>
        /\ ~ExtractionRaised
        /\ \A f \in Written :
              f.text.job.cond =
                  [prefix |-> GatePrefix(f.text.job_id),
                   roles |-> ExpectedRoles(args.shim.doc.cond)]

(***************************************************************************)
(* Install feedback (lib/feedback.py).                                     *)
(*                                                                         *)
(* A problem is a record [step, title]; the title is the sequence of its   *)
(* words.  An issue is a record [number, url].  The gh commands are the    *)
(* external calls: each has an outcome the function cannot choose, drawn   *)
(* from the outcomes subprocess.run can have.  calls is the list of the    *)
(* commands run so far, each with what its function made of the outcome.   *)
(***************************************************************************)
MAX_ISSUES_PER_INSTALL == 3

Problem(step, title) == [step |-> step, title |-> title]

Issue(number) == [number |-> number, url |-> <<"issues", number>>]

\* what a gh command did: it exited non-zero (CalledProcessError), or it
\* exited zero and printed nothing, text that is not JSON, a list of issues
\* as JSON, or the URL of the issue created
GhFailed == [kind |-> "error", issues |-> <<>>, number |-> ""]

GhBlank == [kind |-> "blank", issues |-> <<>>, number |-> ""]

GhGarbage == [kind |-> "garbage", issues |-> <<>>, number |-> ""]

GhJson(issues) == [kind |-> "json", issues |-> issues, number |-> ""]

GhUrl(number) == [kind |-> "url", issues |-> <<>>, number |-> number]

GhCall(cmd, issues, ok) == [cmd |-> cmd, issues |-> issues, ok |-> ok]

\* report.has_problems()
has_problems(problems) == Len(problems) > 0

\* format_issue_title(problem)
format_issue_title(problem) ==
    <<"Runbook:", "[Step", problem.step, "]">> \o problem.title

\* the title of the summary issue
summary_title(problems) ==
    <<"Runbook:", "Multiple problems during install">>
    \o decimal(Len(problems)) \o <<"issues">>

\* search_existing_issues(search_term, repo), for the outcome of gh search
search_existing_issues(outcome) ==
    IF outcome.kind = "json" THEN outcome.issues ELSE <<>>

\* problem.title.split()[:3]
title_words(problem) ==
    SubSeq(problem.title, 1, IF Len(problem.title) < 3 THEN Len(problem.title) ELSE 3)

SearchCmd(term) == <<"gh", "search", "issues">> \o term

\* find_matching_issue(problem, repo), for the outcomes of the search by
\* step and of the search by title: the issue found (<<>> for None) and
\* the commands run
find_matching_issue(problem, by_step, by_title) ==
    LET step_search == <<"Step", problem.step>>
        issues      == search_existing_issues(by_step)
        step_call   == GhCall(SearchCmd(step_search), issues, TRUE)
    IN  IF issues # <<>>
        THEN [existing |-> <<issues[1]>>, calls |-> <<step_call>>]
        ELSE IF title_words(problem) # <<>>
        THEN LET title_issues == search_existing_issues(by_title)
                 title_call   == GhCall(SearchCmd(title_words(problem)),
                                        title_issues, TRUE)
             IN  IF title_issues # <<>>
                 THEN [existing |-> <<title_issues[1]>>,
                       calls |-> <<step_call, title_call>>]
                 ELSE [existing |-> <<>>, calls |-> <<step_call, title_call>>]
        ELSE [existing |-> <<>>, calls |-> <<step_call>>]

CreateCmd(title) == <<"gh", "issue", "create">> \o title

\* file_issue(title, body, repo, labels), for the outcome of gh issue
\* create: the issue (<<>> for None)
file_issue(outcome) ==
    IF outcome.kind = "url" THEN <<Issue(outcome.number)>> ELSE <<>>

CommentCmd(number) == <<"gh", "issue", "comment", number>>

\* a bug: a comment that failed counts as posted
add_comment_unchecked(outcome) == TRUE

\* add_comment(issue_number, body, repo), for the outcome of gh issue comment
add_comment(outcome) == outcome.kind # "error"

\* a bug: the limit is reached one issue early
limit_reached_early(issues_filed) == issues_filed + 1 >= MAX_ISSUES_PER_INSTALL

\* issues_filed >= MAX_ISSUES_PER_INSTALL
limit_reached(issues_filed) == issues_filed >= MAX_ISSUES_PER_INSTALL

EmptyReportResult ==
    [filed |-> <<>>, commented |-> <<>>, skipped |-> <<>>, errors |-> <<>>]

DryRun(title) == [title |-> title, dry_run |-> TRUE]

Failure(about, error) == [about |-> about, error |-> error]

(***************************************************************************)
(* Specification of report_problems(report, repo, dry_run): args holds the *)
(* problems of the report and dry_run; locals holds the loop position i    *)
(* (the problem at hand), issues_filed and existing (<<>> for None).       *)
(***************************************************************************)
MaxProblems == 4

ProblemKinds ==
    {Problem("2.1", <<"Enable", "Actions", "Permissions", "first">>),
     Problem("3", <<>>)}

RECURSIVE Reports(_)

Reports(n) ==
    IF n = 0
    THEN {<<>>}
    ELSE Reports(n - 1) \cup
         {Append(r, p) : r \in {q \in Reports(n - 1) : Len(q) = n - 1},
                         p \in ProblemKinds}

SearchOutcomes ==
    {GhFailed, GhBlank, GhGarbage, GhJson(<<>>), GhJson(<<Issue("42")>>),
     GhJson(<<Issue("43"), Issue("42")>>)}

CreateOutcomes == {GhFailed, GhBlank, GhUrl("50")}

CommentOutcomes == {GhFailed, GhBlank}

InitReport ==
    /\ pc = "report"
    /\ args \in [problems : Reports(MaxProblems), dry_run : BOOLEAN]
    /\ locals = [i |-> 1, issues_filed |-> 0, existing |-> <<>>]
    /\ calls = <<>>
    /\ result = EmptyReportResult
    /\ heap = <<>>
    /\ base = 0
    /\ override = 0
    /\ command_string = Idle
    /\ known_modes = {}
    /\ base_path = Idle
    /\ override_path = Idle
    /\ local_path = Idle

Frame ==
    UNCHANGED <<heap, base, override, command_string, known_modes,
                base_path, override_path, local_path, args>>

\* lines 311-318: the empty report returns at once; more problems than the
\* limit go to the summary issue
Begin ==
    /\ pc = "report"
    /\ pc' = IF ~has_problems(args.problems) THEN "done"
             ELSE IF Len(args.problems) > MAX_ISSUES_PER_INSTALL THEN "summary"
             ELSE "loop"
    /\ UNCHANGED <<result, locals, calls>>
    /\ Frame

\* lines 318-331: the summary issue
Summary ==
    /\ pc = "summary"
    /\ LET title == summary_title(args.problems)
       IN  IF args.dry_run
           THEN /\ result' = [result EXCEPT !.filed = Append(@, DryRun(title))]
                /\ calls' = calls
           ELSE \E outcome \in CreateOutcomes :
                   LET issue == file_issue(outcome)
                   IN  /\ calls' = Append(calls,
                                          GhCall(CreateCmd(title), issue,
                                                 outcome.kind # "error"))
                       /\ result' =
                             IF issue # <<>>
                             THEN [result EXCEPT !.filed = Append(@, issue[1])]
                             ELSE [result EXCEPT !.errors =
                                      Append(@, Failure(title,
                                                        "Failed to file issue"))]
    /\ pc' = "done"
    /\ UNCHANGED locals
    /\ Frame

\* lines 335-344: the head of the loop for problem i, the limit check and
\* the search for an existing issue
Search ==
    /\ pc = "loop"
    /\ locals.i <= Len(args.problems)
    /\ LET problem == args.problems[locals.i]
       IN  IF limit_reached(locals.issues_filed)
           THEN /\ result' = [result EXCEPT !.skipped =
                                 Append(@, [step |-> problem.step,
                                            reason |-> "Issue limit reached"])]
                /\ locals' = [locals EXCEPT !.i = @ + 1]
                /\ UNCHANGED <<pc, calls>>
           ELSE \E by_step \in SearchOutcomes, by_title \in SearchOutcomes :
                   LET found == find_matching_issue(problem, by_step, by_title)
                   IN  /\ locals' = [locals EXCEPT !.existing = found.existing]
                       /\ calls' = calls \o found.calls
                       /\ pc' = IF found.existing # <<>> THEN "existing" ELSE "new"
                       /\ UNCHANGED result
    /\ Frame

\* lines 346-363: the "me too" comment on the issue found
Comment ==
    /\ pc = "existing"
    /\ LET problem  == args.problems[locals.i]
           existing == locals.existing[1]
       IN  IF args.dry_run
           THEN /\ result' = [result EXCEPT !.commented =
                                 Append(@, [issue |-> existing, dry_run |-> TRUE])]
                /\ calls' = calls
           ELSE \E outcome \in CommentOutcomes :
                   /\ calls' = Append(calls,
                                      GhCall(CommentCmd(existing.number), <<>>,
                                             outcome.kind # "error"))
                   /\ result' =
                         IF add_comment(outcome)
                         THEN [result EXCEPT !.commented = Append(@, existing)]
                         ELSE [result EXCEPT !.errors =
                                  Append(@, Failure(<<problem.step>>,
                                                    "Failed to add comment"))]
    /\ locals' = [locals EXCEPT !.i = @ + 1]
    /\ pc' = "loop"
    /\ Frame

\* lines 364-380: a new issue for the problem
FileNew ==
    /\ pc = "new"
    /\ LET problem == args.problems[locals.i]
           title   == format_issue_title(problem)
       IN  IF args.dry_run
           THEN /\ result' = [result EXCEPT !.filed = Append(@, DryRun(title))]
                /\ locals' = [locals EXCEPT !.i = @ + 1,
                                            !.issues_filed = @ + 1]
                /\ calls' = calls
           ELSE \E outcome \in CreateOutcomes :
                   LET issue == file_issue(outcome)
                   IN  /\ calls' = Append(calls,
                                          GhCall(CreateCmd(title), issue,
                                                 outcome.kind # "error"))
                       /\ IF issue # <<>>
                          THEN /\ result' = [result EXCEPT !.filed =
                                                Append(@, issue[1])]
                               /\ locals' = [locals EXCEPT
                                                !.i = @ + 1,
                                                !.issues_filed = @ + 1]
                          ELSE /\ result' = [result EXCEPT !.errors =
                                                Append(@, Failure(<<problem.step>>,
                                                          "Failed to file issue"))]
                               /\ locals' = [locals EXCEPT !.i = @ + 1]
    /\ pc' = "loop"
    /\ Frame

\* line 382: return result
Return ==
    /\ pc = "loop"
    /\ locals.i > Len(args.problems)
    /\ pc' = "done"
    /\ UNCHANGED <<result, locals, calls>>
    /\ Frame

NextReport == Begin \/ Summary \/ Search \/ Comment \/ FileNew \/ Return

SpecReport == InitReport /\ [][NextReport]_vars

\* the positions in calls of the gh commands of each kind
SearchCalls == {j \in 1..Len(calls) : calls[j].cmd[2] = "search"}

CreateCalls == {j \in 1..Len(calls) : calls[j].cmd[3] = "create"}

CommentCalls == {j \in 1..Len(calls) : calls[j].cmd[3] = "comment"}

\* no search of the call has found an issue
NoMatch == \A j \in SearchCalls : calls[j].issues = <<>>

\* C24: one call to report_problems files at most 3 new issues, whatever
\* the external calls do; with more than 3 problems it files at most one
\* issue (the summary) and runs no search and no comment; with exactly 3
\* problems and no existing match it tries to file all 3 (each is in filed
\* unless its own file_issue call failed) and skips none.
C24_IssueLimit ==
    /\ Cardinality(CreateCalls) <= 3
    /\ Len(result.filed) <= 3
    /\ Len(args.problems) > 3 =>
          /\ Cardinality(CreateCalls) <= 1
          /\ Len(result.filed) <= 1
          /\ SearchCalls = {} /\ CommentCalls = {}
          /\ \A j \in CreateCalls :
                calls[j].cmd[5] = "Multiple problems during install"
    /\ (pc = "done" /\ Len(args.problems) = 3 /\ NoMatch) =>
          /\ result.skipped = <<>>
          /\ result.commented = <<>>
          /\ IF args.dry_run
             THEN /\ Len(result.filed) = 3
                  /\ CreateCalls = {}
                  /\ \A i \in 1..3 :
                        /\ result.filed[i].dry_run
                        /\ result.filed[i].title[3] = args.problems[i].step
             ELSE /\ Cardinality(CreateCalls) = 3
                  /\ Len(result.filed) =
                        Cardinality({j \in CreateCalls : calls[j].issues # <<>>})
                  /\ Len(result.filed) + Len(result.errors) = 3

\* three problems without a match were all filed, none skipped
C24_Witness ==
    /\ pc = "done"
    /\ Len(args.problems) = 3
    /\ ~args.dry_run
    /\ NoMatch
    /\ Len(result.filed) = 3
    /\ Cardinality(CreateCalls) = 3
    /\ result.skipped = <<>>

\* C25: every new issue filed is preceded, in the same call of
\* report_problems, by a search for an existing issue that found none, and
\* no issue is filed for a problem whose search found a match.
C25_SearchBeforeFiling ==
    /\ \A j \in CreateCalls :
          \E i \in SearchCalls : i < j /\ calls[i].issues = <<>>
    /\ result.filed # <<>> => \E i \in SearchCalls : calls[i].issues = <<>>
    /\ \A j \in CreateCalls :
          j > 1 /\ ~(calls[j - 1].cmd[2] = "search" /\ calls[j - 1].issues # <<>>)

\* the problems report_problems is done with
Processed ==
    IF pc = "done" THEN Len(args.problems)
    ELSE IF pc = "report" THEN 0
    ELSE locals.i - 1

FailedCreates == {j \in CreateCalls : calls[j].issues = <<>>}

FailedComments == {j \in CommentCalls : ~calls[j].ok}

\* C29: for a report with 1 to 3 problems, whatever the searches, filings
\* and comments do, every problem report_problems is done with is in
\* exactly one of filed, commented and errors; a problem whose file_issue or
\* add_comment call failed is in errors and not in filed or commented; and
\* skipped stays empty.
C29_Accounting ==
    Len(args.problems) \in 1..3 =>
        /\ Len(result.filed) + Len(result.commented) + Len(result.errors)
              = Processed
        /\ result.skipped = <<>>
        /\ Len(result.errors)
              = Cardinality(FailedCreates) + Cardinality(FailedComments)
        /\ ~args.dry_run =>
              /\ Len(result.filed) = Cardinality(CreateCalls \ FailedCreates)
              /\ Len(result.commented)
                    = Cardinality(CommentCalls \ FailedComments)
        /\ args.dry_run => CreateCalls = {} /\ CommentCalls = {}

\* of three problems one was filed, one got a comment and one comment
\* failed
C29_Witness ==
    /\ pc = "done"
    /\ Len(args.problems) = 3
    /\ ~args.dry_run
    /\ Len(result.filed) = 1
    /\ Len(result.commented) = 1
    /\ Len(result.errors) = 1
    /\ FailedComments # {}

(***************************************************************************)
(* _rewrite_needs_refs on values of any shape.  A string is the sequence   *)
(* of its tokens (names and dots), a list is List(<<...>>), a dict is      *)
(* Map(<<Item(key, value), ...>>) and a step is a dict.  In the compiler   *)
(* model above the same function acts on step records whose texts are      *)
(* sequences of whole pieces.                                              *)
(***************************************************************************)
NEEDS_PARSE_OUTPUTS == <<"needs", ".", "parse", ".", "outputs", ".">>

STEPS_PARSE_OUTPUTS == <<"steps", ".", "parse", ".", "outputs", ".">>

RECURSIVE str_replace(_, _, _)

\* s.replace(old, new): the occurrences of old from the left, not
\* overlapping
str_replace(s, old, new) ==
    IF Len(s) < Len(old)
    THEN s
    ELSE IF SubSeq(s, 1, Len(old)) = old
    THEN new \o str_replace(SubSeq(s, Len(old) + 1, Len(s)), old, new)
    ELSE <<Head(s)>> \o str_replace(Tail(s), old, new)

RECURSIVE rewrite_shallow(_)

\* a bug: the values of a list are not rewritten
rewrite_shallow(obj) ==
    IF obj.t = "str"
    THEN Str(str_replace(obj.v, NEEDS_PARSE_OUTPUTS, STEPS_PARSE_OUTPUTS))
    ELSE IF obj.t = "map"
    THEN Map([i \in 1..Len(obj.v) |-> Item(obj.v[i].k, rewrite_shallow(obj.v[i].v))])
    ELSE obj

RECURSIVE rewrite(_)

\* rewrite(obj), the function _rewrite_needs_refs applies to every step
rewrite(obj) ==
    IF obj.t = "str"
    THEN Str(str_replace(obj.v, NEEDS_PARSE_OUTPUTS, STEPS_PARSE_OUTPUTS))
    ELSE IF obj.t = "map"
    THEN Map([i \in 1..Len(obj.v) |-> Item(obj.v[i].k, rewrite(obj.v[i].v))])
    ELSE IF obj.t = "list"
    THEN List([i \in 1..Len(obj.v) |-> rewrite(obj.v[i])])
    ELSE obj

\* for i, step in enumerate(steps): steps[i] = rewrite(step)
rewrite_steps(steps) == [i \in 1..Len(steps) |-> rewrite(steps[i])]

(***************************************************************************)
(* Specification of _rewrite_needs_refs: it runs on a list of steps, and   *)
(* then once more on what it left.  A text is made of at most MaxChunks    *)
(* chunks: a reference to an output of the parse job or of another job, a  *)
(* reference already rewritten, the beginning of a reference, a name.  A   *)
(* value is a text or a number, or a list or a dict of values, nested at   *)
(* most MaxNest deep.                                                      *)
(***************************************************************************)
MaxChunks == 2

MaxNest == 2

NEEDS_BUILD_OUTPUTS == <<"needs", ".", "build", ".", "outputs", ".">>

Chunks ==
    {NEEDS_PARSE_OUTPUTS, NEEDS_BUILD_OUTPUTS, STEPS_PARSE_OUTPUTS,
     <<"needs", ".", "parse", ".">>, <<"model">>}

RECURSIVE Texts(_)

Texts(n) ==
    IF n = 0
    THEN {<<>>}
    ELSE Texts(n - 1) \cup {t \o c : t \in Texts(n - 1), c \in Chunks}

StepKeys == {<<"run">>, NEEDS_PARSE_OUTPUTS}

RECURSIVE StepValues(_)

StepValues(d) ==
    IF d = 0
    THEN {Str(t) : t \in Texts(MaxChunks)} \cup {Num(1)}
    ELSE StepValues(d - 1)
         \cup {List(<<v>>) : v \in StepValues(d - 1)}
         \cup {List(<<Str(NEEDS_PARSE_OUTPUTS), v>>) : v \in StepValues(d - 1)}
         \cup {Map(<<Item(key, v)>>) : key \in StepKeys, v \in StepValues(d - 1)}

InitRewrite ==
    /\ pc = "rewrite"
    /\ args \in {<<Map(<<Item(<<"name">>, Str(<<"model">>)), Item(<<"env">>, v)>>),
                   Map(<<Item(<<"run">>, Str(NEEDS_PARSE_OUTPUTS \o <<"model">>))>>)>> :
                    v \in StepValues(MaxNest)}
    /\ locals = Idle
    /\ result = Idle
    /\ calls = <<>>
    /\ heap = <<>>
    /\ base = 0
    /\ override = 0
    /\ command_string = Idle
    /\ known_modes = {}
    /\ base_path = Idle
    /\ override_path = Idle
    /\ local_path = Idle

\* _rewrite_needs_refs(steps)
Rewrite ==
    /\ pc = "rewrite"
    /\ result' = rewrite_steps(args)
    /\ locals' = args
    /\ pc' = "rewritten"
    /\ UNCHANGED calls
    /\ Frame

\* _rewrite_needs_refs(steps), on the steps it has rewritten
RewriteAgain ==
    /\ pc = "rewritten"
    /\ result' = rewrite_steps(result)
    /\ locals' = result
    /\ pc' = "done"
    /\ UNCHANGED calls
    /\ Frame

NextRewrite == Rewrite \/ RewriteAgain

SpecRewrite == InitRewrite /\ [][NextRewrite]_vars

\* text has old at position i (from 1)
OccursAt(text, old, i) ==
    /\ i + Len(old) - 1 <= Len(text)
    /\ SubSeq(text, i, i + Len(old) - 1) = old

Occurs(text, old) == \E i \in 1..Len(text) : OccursAt(text, old, i)

RECURSIVE StringsOf(_)

\* the string values inside a value, at any depth
StringsOf(value) ==
    IF value.t = "str" THEN {value.v}
    ELSE IF value.t = "list"
    THEN UNION {StringsOf(value.v[i]) : i \in 1..Len(value.v)}
    ELSE IF value.t = "map"
    THEN UNION {StringsOf(value.v[i].v) : i \in 1..Len(value.v)}
    ELSE {}

\* a reference to an output of an upstream job: needs.<job>.outputs.
CrossJobReferences == {NEEDS_PARSE_OUTPUTS, NEEDS_BUILD_OUTPUTS}

\* C26 as stated: after _rewrite_needs_refs no string value of any step, at
\* any depth, contains a reference to an output of an upstream job.
C26_NoCrossJobReference ==
    pc \in {"rewritten", "done"} =>
        \A i \in 1..Len(result) :
            \A text \in StringsOf(result[i]) :
                \A ref \in CrossJobReferences : ~Occurs(text, ref)

\* text with "needs" turned into "steps" wherever a reference to an output
\* of the parse job begins, and nothing else touched
ParseRefsRenamed(text) ==
    [i \in 1..Len(text) |->
        IF OccursAt(text, <<"needs", ".", "parse", ".", "outputs", ".">>, i)
        THEN "steps"
        ELSE text[i]]

RECURSIVE SameButParseRefs(_, _)

\* after is before with the parse references of its string values renamed:
\* same shape, same keys, same numbers
SameButParseRefs(before, after) ==
    /\ after.t = before.t
    /\ IF before.t = "str" THEN after.v = ParseRefsRenamed(before.v)
       ELSE IF before.t = "list"
       THEN /\ Len(after.v) = Len(before.v)
            /\ \A i \in 1..Len(before.v) :
                  SameButParseRefs(before.v[i], after.v[i])
       ELSE IF before.t = "map"
       THEN /\ Len(after.v) = Len(before.v)
            /\ \A i \in 1..Len(before.v) :
                  /\ after.v[i].k = before.v[i].k
                  /\ SameButParseRefs(before.v[i].v, after.v[i].v)
       ELSE after = before

\* C26, amended: after _rewrite_needs_refs no string value of any step, at
\* any depth, contains 'needs.parse.outputs.'; each occurrence has become
\* 'steps.parse.outputs.' and everything else (a reference to an output of
\* another job included) is as it was; a second run changes nothing.
C26_ParseRefsRewritten ==
    /\ pc \in {"rewritten", "done"} =>
          /\ Len(result) = Len(locals)
          /\ \A i \in 1..Len(result) :
                /\ \A text \in StringsOf(result[i]) :
                      ~Occurs(text, <<"needs", ".", "parse", ".", "outputs", ".">>)
                /\ pc = "rewritten" => SameButParseRefs(locals[i], result[i])
    /\ pc = "done" => result = locals

\* a reference to the parse job two lists deep, next to one to another job,
\* was rewritten and the other one kept
C26_Witness ==
    /\ pc = "rewritten"
    /\ \E v \in StepValues(0) :
          /\ v.t = "str"
          /\ Occurs(v.v, NEEDS_PARSE_OUTPUTS) /\ Occurs(v.v, NEEDS_BUILD_OUTPUTS)
          /\ locals[1].v[2].v = List(<<List(<<v>>)>>)
    /\ \E text \in StringsOf(result[1]) :
          Occurs(text, STEPS_PARSE_OUTPUTS) /\ Occurs(text, NEEDS_BUILD_OUTPUTS)

(***************************************************************************)
(* The parser inlined into a compiled artifact (the Python program that    *)
(* inline_config_parsing writes, lines 102-178 of compile.py), run on the  *)
(* comment that triggered the workflow.  inline holds the values baked     *)
(* into the program.                                                       *)
(***************************************************************************)
t_agent == <<"/", "a", "g", "e", "n", "t", "-">>

\* the characters of [a-z0-9-]
AliasChars ==
    {"a", "b", "c", "d", "e", "f", "g", "h", "i", "j", "k", "l", "m", "n",
     "o", "p", "q", "r", "s", "t", "u", "v", "w", "x", "y", "z", "0", "1",
     "2", "3", "4", "5", "6", "7", "8", "9", "-"}

RECURSIVE span(_, _)

\* the longest beginning of s made of the characters of chars
span(s, chars) ==
    IF s = <<>> \/ Head(s) \notin chars
    THEN <<>>
    ELSE <<Head(s)>> \o span(Tail(s), chars)

\* lines 138-139: re.match(r'^/agent-<mode>-?([a-z0-9-]*)', comment) and
\* group 1 of the match, "" when there is no match
re_match_alias(mode, comment) ==
    LET prefix == t_agent \o mode
    IN  IF Len(comment) >= Len(prefix) /\ SubSeq(comment, 1, Len(prefix)) = prefix
        THEN LET rest == SubSeq(comment, Len(prefix) + 1, Len(comment))
             IN  span(IF rest # <<>> /\ Head(rest) = "-" THEN Tail(rest) ELSE rest,
                      AliasChars)
        ELSE <<>>

RECURSIVE python_literal(_, _)

\* the string a Python literal "<source>" stands for: a backslash takes the
\* character after it, and a line break inside the quotes is a SyntaxError
python_literal(source, out) ==
    IF source = <<>>
    THEN [kind |-> "ok", text |-> out]
    ELSE IF Head(source) = "\n"
    THEN [kind |-> "SyntaxError", text |-> <<>>]
    ELSE IF Head(source) = "\\" /\ Len(source) >= 2
    THEN python_literal(Tail(Tail(source)), Append(out, source[2]))
    ELSE python_literal(Tail(source), Append(out, Head(source)))

InlineFailed(kind) == [kind |-> kind, value |-> <<>>]

\* lines 109-170: the program with the values of inline, for a comment
run_inline_parser(inline, comment) ==
    LET template == python_literal(inline.commit_trailer, <<>>)
        matched  == re_match_alias(inline.mode, comment)
        alias    == IF matched = <<>> THEN str_of(inline.default_model)
                    ELSE matched
        known    == {i \in 1..Len(inline.models) : inline.models[i].alias = alias}
    IN  IF template.kind # "ok"
        THEN InlineFailed("SyntaxError")
        ELSE IF known = {}
        THEN InlineFailed("exit 1")
        ELSE LET model == str_of(inline.models[CHOOSE i \in known : TRUE].id)
                 oh_version == str_of(inline.oh_version)
                 trailer == IF template.text = <<>>
                            THEN [kind |-> "ok", text |-> <<>>]
                            ELSE format_from(template.text, 1, Str(alias),
                                             Str(model), Str(oh_version), <<>>)
             IN  IF trailer.kind # "ok"
                 THEN InlineFailed(trailer.kind)
                 ELSE [kind |-> "ok",
                       value |-> [model |-> model,
                                  alias |-> alias,
                                  max_iterations |-> str_of(inline.max_iterations),
                                  oh_version |-> oh_version,
                                  pr_type |-> str_of(inline.pr_type),
                                  on_failure |-> str_of(inline.on_failure),
                                  target_branch |-> str_of(inline.target_branch),
                                  commit_trailer |-> trailer.text]]

(***************************************************************************)
(* Specification of the two parsers side by side: the configuration        *)
(* args.config is compiled for args.mode and the inlined parser runs on    *)
(* args.comment; resolve_config runs on the same configuration as its only *)
(* layer, with the text of the comment after "/agent-".                     *)
(***************************************************************************)
t_multiline ==
    <<"b", "y", " ", "{", "m", "o", "d", "e", "l", "_", "i", "d", "}", "\n", "x">>

t_quoted == <<"\"", "{", "m", "o", "d", "e", "l", "_", "i", "d", "}", "\\", "\"">>

\* DocFull with a commit trailer template
DocWithTrailer(t) == Map(DocFull.v \o <<Item(s_commit_trailer, Str(t))>>)

\* DocFull without the version of openhands
DocNoVersion ==
    Map(SubSeq(DocFull.v, 1, 3)
        \o <<Item(s_openhands, Map(<<Item(s_max_iterations, Num(10))>>))>>)

InlineConfigs ==
    {DocFull, DocMinimal, DocNoVersion}
    \cup {DocWithTrailer(t) : t \in {t_trailer, t_trailer_who, t_quoted, t_multiline}}

InlineComments == {t_agent \o c : c \in Commands \cup {<<"r", "e", "s", "o", "l", "v", "e", "-", "m", "2">>}}

InitInline ==
    /\ pc = "parse"
    /\ args \in [config : InlineConfigs, mode : {t_resolve, t_design},
                 comment : InlineComments]
    /\ result = Idle
    /\ locals = Idle
    /\ calls = <<>>
    /\ heap = <<>>
    /\ base = 0
    /\ override = 0
    /\ command_string = Idle
    /\ known_modes = {}
    /\ base_path = Idle
    /\ override_path = Idle
    /\ local_path = Idle

RunParsers ==
    /\ pc = "parse"
    /\ result' =
          [inline |-> run_inline_parser(
                          inline_config_parsing(args.config, args.mode),
                          args.comment),
           resolver |-> resolve_config(
                            <<>>, Yaml(args.config), Missing,
                            SubSeq(args.comment, Len(t_agent) + 1,
                                   Len(args.comment)),
                            NoPath).out]
    /\ pc' = "done"
    /\ UNCHANGED <<locals, calls>>
    /\ Frame

NextInline == RunParsers

SpecInline == InitInline /\ [][NextInline]_vars

\* the gate of the artifact of a mode lets the comment through:
\* startsWith(comment, '/agent-<mode>'), which ignores case
GateAccepts(mode, comment) ==
    /\ Len(comment) >= Len(t_agent \o mode)
    /\ lower(SubSeq(comment, 1, Len(t_agent \o mode))) = t_agent \o mode

\* both parsers failed, or both succeeded with the same outputs
ParsersAgree ==
    IF result.inline.kind # "ok" \/ result.resolver.kind # "ok"
    THEN result.inline.kind # "ok" /\ result.resolver.kind # "ok"
    ELSE /\ result.inline.value.alias = str_of(result.resolver.value.alias)
         /\ result.inline.value.model = str_of(result.resolver.value.model)
         /\ result.inline.value.max_iterations
               = str_of(result.resolver.value.max_iterations)
         /\ result.inline.value.oh_version
               = str_of(result.resolver.value.oh_version)
         /\ result.inline.value.pr_type = str_of(result.resolver.value.pr_type)
         /\ result.inline.value.commit_trailer
               = str_of(result.resolver.value.commit_trailer)

\* C27: for every configuration and every comment the gate of the mode's
\* artifact accepts, the inlined parser and resolve_config both fail or
\* both succeed with the same alias, model id, max_iterations, oh_version,
\* pr_type and commit_trailer.
C27_ParsersAgree ==
    (pc = "done" /\ GateAccepts(args.mode, args.comment)) => ParsersAgree

(***************************************************************************)
(* Specification of the two compilations as calls on one loaded            *)
(* definition: args holds the shim, the generic definition and the         *)
(* configuration as load_yaml returned them, locals the three objects as   *)
(* they are in memory now, and calls the compilations made so far, each    *)
(* with its mode and what it wrote or raised.  A compilation that raises   *)
(* ends the program.                                                       *)
(***************************************************************************)
MaxCalls == 2

\* the generic definition with at most one edit
CallWorkflows ==
    {GenericWorkflow}
    \cup UNION {{[GenericWorkflow EXCEPT ![job] = steps] :
                    steps \in EditsOf(GenericWorkflow[job])} : job \in Jobs}

InitCalls ==
    /\ pc = "call"
    /\ args \in [shim : {Shim(IfStr(<<GateCall>>)), Shim(IfBool)},
                 workflow : CallWorkflows,
                 config_yaml : {DocFull, DocMinimal}]
    /\ locals = args
    /\ calls = <<>>
    /\ result = {}
    /\ heap = <<>>
    /\ base = 0
    /\ override = 0
    /\ command_string = Idle
    /\ known_modes = {}
    /\ base_path = Idle
    /\ override_path = Idle
    /\ local_path = Idle

\* the call compiled(...) returns or raises: its files, the definition it
\* leaves in memory, and its entry in calls
CallEnds(mode, path, compiled) ==
    /\ result' = compiled.files
    /\ locals' = [locals EXCEPT !.workflow = compiled.workflow]
    /\ calls' = Append(calls,
                       [mode |-> mode, kind |-> compiled.kind,
                        cause |-> IF compiled.kind = "ok" THEN <<>>
                                  ELSE compiled.cause,
                        written |-> {f \in compiled.files : f.path = path}])
    /\ pc' = IF compiled.kind # "ok" THEN "raised"
             ELSE IF Len(calls) + 1 = MaxCalls THEN "done"
             ELSE "call"

CallResolve ==
    /\ pc = "call"
    /\ CallEnds("resolve", <<"dist", "agent-resolve.yml">>,
                compile_resolve(locals.shim, locals.workflow,
                                locals.config_yaml,
                                <<"dist", "agent-resolve.yml">>, {}))
    /\ Frame

CallDesign ==
    /\ pc = "call"
    /\ CallEnds("design", <<"dist", "agent-design.yml">>,
                compile_design(locals.shim, locals.workflow,
                               locals.config_yaml,
                               <<"dist", "agent-design.yml">>, {}))
    /\ Frame

NextCalls == CallResolve \/ CallDesign

SpecCalls == InitCalls /\ [][NextCalls]_vars

\* the calls made so far wrote or raised what a call of the same mode on
\* the definition as it was loaded writes or raises
SameAsFresh ==
    \A i \in 1..Len(calls) :
        LET fresh == IF calls[i].mode = "resolve"
                     THEN compile_resolve(args.shim, args.workflow,
                                          args.config_yaml,
                                          <<"dist", "agent-resolve.yml">>, {})
                     ELSE compile_design(args.shim, args.workflow,
                                         args.config_yaml,
                                         <<"dist", "agent-design.yml">>, {})
        IN  /\ calls[i].kind = fresh.kind
            /\ calls[i].written = fresh.files

\* C28: after a call of compile_resolve or compile_design the shim, the
\* generic definition (every step of every job, the env maps of the copied
\* steps included) and the configuration are what they were before the
\* call, and the artifacts of the calls do not depend on the calls made
\* before them.
C28_InputsUnchanged ==
    /\ locals = args
    /\ SameAsFresh

(***************************************************************************)
(* The cost parser (lib/cost.py, parse_litellm_logs).                      *)
(*                                                                         *)
(* log_content is the sequence of its lines (what split("\n") returns),    *)
(* and a line is the sequence of its JSON tokens: "{", "}", "[", "]", a    *)
(* member with a scalar value ("key": value), a key whose value follows    *)
(* ("key":), or text that is not JSON.  A blank line is the empty          *)
(* sequence.  Commas and white space are not modelled: the members and     *)
(* elements of the inputs are separated as json.dumps separates them.      *)
(* Costs are whole numbers of a small unit.                                *)
(***************************************************************************)
Token(t, key, value) == [t |-> t, k |-> key, v |-> value]

LBRACE == Token("{", "", None)

RBRACE == Token("}", "", None)

LBRACKET == Token("[", "", None)

RBRACKET == Token("]", "", None)

Member(key, value) == Token("member", key, value)

KeyOnly(key) == Token("key", key, None)

TEXT == Token("text", "", None)

\* line.count(ch) for a brace
line_count(line, ch) == Cardinality({i \in 1..Len(line) : line[i].t = ch})

\* line.strip().startswith("{")
starts_with_brace(line) == line # <<>> /\ line[1].t = "{"

RECURSIVE join(_)

\* "\n".join(json_buffer), as tokens
join(json_buffer) ==
    IF json_buffer = <<>> THEN <<>>
    ELSE Head(json_buffer) \o join(Tail(json_buffer))

JSONDecodeError == [ok |-> FALSE, data |-> <<>>]

RECURSIVE json_scan(_, _, _, _, _)

\* json.loads from token i on: stack holds the open brackets, pending says
\* that a key waits for its value, data holds the members of the outermost
\* object read so far (a later member of the same name wins)
json_scan(tokens, i, stack, pending, data) ==
    IF i > Len(tokens)
    THEN IF stack = <<>> /\ i > 1 THEN [ok |-> TRUE, data |-> data]
         ELSE JSONDecodeError
    ELSE IF stack = <<>>
    THEN IF i = 1 /\ tokens[i].t = "{"
         THEN json_scan(tokens, i + 1, <<"{">>, FALSE, data)
         ELSE JSONDecodeError
    ELSE IF pending
    THEN IF tokens[i].t \in {"{", "["}
         THEN json_scan(tokens, i + 1, Append(stack, tokens[i].t), FALSE, data)
         ELSE JSONDecodeError
    ELSE IF stack[Len(stack)] = "{"
    THEN IF tokens[i].t = "}"
         THEN json_scan(tokens, i + 1, SubSeq(stack, 1, Len(stack) - 1),
                        FALSE, data)
         ELSE IF tokens[i].t \in {"member", "key"}
         THEN json_scan(tokens, i + 1, stack, tokens[i].t = "key",
                        IF Len(stack) = 1
                        THEN (tokens[i].k :> tokens[i].v) @@ data
                        ELSE data)
         ELSE JSONDecodeError
    ELSE IF tokens[i].t = "{"
    THEN json_scan(tokens, i + 1, Append(stack, "{"), FALSE, data)
    ELSE IF tokens[i].t = "]"
    THEN json_scan(tokens, i + 1, SubSeq(stack, 1, Len(stack) - 1), FALSE, data)
    ELSE JSONDecodeError

\* json.loads(json_str)
json_loads(tokens) == json_scan(tokens, 1, <<>>, FALSE, <<>>)

\* isinstance(data, dict) and "response_cost" in data and
\* "prompt_tokens" in data
is_payload(loaded) ==
    /\ loaded.ok
    /\ "response_cost" \in DOMAIN loaded.data
    /\ "prompt_tokens" \in DOMAIN loaded.data

\* data.get(key, 0) or 0
get_or_0(data, key) ==
    IF key \in DOMAIN data /\ data[key].t = "int" THEN data[key].v ELSE 0

\* lines 164-178 and 191-204: json.loads of the text in a try, and the
\* totals with the payload added when it is one
add_payload(totals, tokens) ==
    LET loaded == json_loads(tokens)
    IN  IF is_payload(loaded)
        THEN [totals EXCEPT
                 !.total_input = @ + get_or_0(loaded.data, "prompt_tokens"),
                 !.total_output = @ + get_or_0(loaded.data, "completion_tokens"),
                 !.total_cost = @ + get_or_0(loaded.data, "response_cost"),
                 !.call_count = @ + 1]
        ELSE totals

RECURSIVE scan_lines(_, _, _)

\* lines 150-208: the loop over lines from line i on; st holds in_json,
\* json_buffer, brace_count and the totals
scan_lines(lines, i, st) ==
    IF i > Len(lines)
    THEN st
    ELSE LET line  == lines[i]
             delta == line_count(line, "{") - line_count(line, "}")
         IN  IF ~st.in_json /\ starts_with_brace(line)
             THEN scan_lines(lines, i + 1,
                             [st EXCEPT !.in_json = TRUE,
                                        !.json_buffer = <<line>>,
                                        !.brace_count = delta])
             ELSE IF st.in_json
             THEN IF st.brace_count + delta <= 0
                  THEN scan_lines(lines, i + 1,
                           [in_json |-> FALSE, json_buffer |-> <<>>,
                            brace_count |-> 0,
                            totals |-> add_payload(
                                st.totals,
                                join(Append(st.json_buffer, line)))])
                  ELSE IF starts_with_brace(line)
                  THEN scan_lines(lines, i + 1,
                           [in_json |-> TRUE, json_buffer |-> <<line>>,
                            brace_count |-> delta,
                            totals |-> add_payload(st.totals,
                                                   join(st.json_buffer))])
                  ELSE scan_lines(lines, i + 1,
                           [st EXCEPT !.json_buffer = Append(@, line),
                                      !.brace_count = @ + delta])
             ELSE scan_lines(lines, i + 1, st)

\* parse_litellm_logs(log_content)
parse_litellm_logs(log_content) ==
    LET totals == scan_lines(log_content, 1,
                      [in_json |-> FALSE, json_buffer |-> <<>>,
                       brace_count |-> 0,
                       totals |-> [total_input |-> 0, total_output |-> 0,
                                   total_cost |-> 0, call_count |-> 0]]).totals
    IN  [input_tokens |-> totals.total_input,
         output_tokens |-> totals.total_output,
         total_cost |-> IF totals.call_count > 0 THEN Num(totals.total_cost)
                        ELSE None,
         call_count |-> totals.call_count,
         source |-> IF totals.call_count > 0 THEN "litellm_logs" ELSE "None"]

(***************************************************************************)
(* Specification of the cost parser: one call on a log made of at most     *)
(* MaxBlocks blocks, each a payload printed over several lines or on one   *)
(* line, with null values, with a nested object, with a list of objects    *)
(* as json.dumps(indent=4) prints it, an unrelated object, an object that  *)
(* breaks off, a line of text or a blank line.                             *)
(***************************************************************************)
MaxBlocks == 3

Fields(cost, prompt, completion) ==
    <<Member("response_cost", cost), Member("prompt_tokens", prompt),
      Member("completion_tokens", completion)>>

FieldsFull == Fields(Num(2), Num(3), Num(1))

FieldsNull == Fields(None, Num(5), None)

Other == <<Member("some_other", Num(7))>>

Blocks ==
    {<<<<LBRACE>>, FieldsFull, <<RBRACE>>>>,
     <<<<LBRACE>>, FieldsNull, <<RBRACE>>>>,
     <<<<LBRACE>> \o FieldsFull \o <<RBRACE>>>>,
     <<<<LBRACE>>, Other, <<RBRACE>>>>,
     <<<<LBRACE>> \o Other \o <<RBRACE>>>>,
     <<<<LBRACE>>, FieldsFull, <<TEXT>>>>,
     <<<<LBRACE>>, FieldsFull, <<KeyOnly("metadata"), LBRACE>>, Other,
       <<RBRACE>>, <<RBRACE>>>>,
     <<<<LBRACE>>, FieldsFull, <<KeyOnly("messages"), LBRACKET>>, <<LBRACE>>,
       Other, <<RBRACE>>, <<RBRACKET>>, <<RBRACE>>>>,
     <<<<TEXT>>>>,
     <<<<>>>>}

RECURSIVE Logs(_)

Logs(n) ==
    IF n = 0 THEN {<<>>}
    ELSE Logs(n - 1) \cup {log \o block : log \in Logs(n - 1), block \in Blocks}

InitLogs ==
    /\ pc = "parse"
    /\ args \in [log_content : Logs(MaxBlocks)]
    /\ result = Idle
    /\ locals = Idle
    /\ calls = <<>>
    /\ heap = <<>>
    /\ base = 0
    /\ override = 0
    /\ command_string = Idle
    /\ known_modes = {}
    /\ base_path = Idle
    /\ override_path = Idle
    /\ local_path = Idle

ParseLogs ==
    /\ pc = "parse"
    /\ result' = parse_litellm_logs(args.log_content)
    /\ pc' = "done"
    /\ UNCHANGED <<locals, calls>>
    /\ Frame

NextLogs == ParseLogs

SpecLogs == InitLogs /\ [][NextLogs]_vars

\* the end of the well-formed object that starts at token i, or 0
object_end(tokens, i) ==
    IF \E j \in i..Len(tokens) : json_loads(SubSeq(tokens, i, j)).ok
    THEN CHOOSE j \in i..Len(tokens) : json_loads(SubSeq(tokens, i, j)).ok
    ELSE 0

RECURSIVE objects_from(_, _)

\* the well-formed JSON objects in the text from token i on, outermost
\* and from left to right
objects_from(tokens, i) ==
    IF i > Len(tokens)
    THEN <<>>
    ELSE IF tokens[i].t = "{" /\ object_end(tokens, i) # 0
    THEN <<json_loads(SubSeq(tokens, i, object_end(tokens, i)))>>
         \o objects_from(tokens, object_end(tokens, i) + 1)
    ELSE objects_from(tokens, i + 1)

\* the payloads among them
PayloadsIn(log_content) ==
    SelectSeq(objects_from(join(log_content), 1), is_payload)

RECURSIVE SumOf(_, _)

SumOf(payloads, key) ==
    IF payloads = <<>> THEN 0
    ELSE get_or_0(Head(payloads).data, key) + SumOf(Tail(payloads), key)

\* C30: for every log, call_count is the number of well-formed JSON objects
\* in the log that have both response_cost and prompt_tokens, input_tokens
\* and output_tokens are the sums of their prompt_tokens and
\* completion_tokens with null counted as 0, and total_cost and source are
\* None exactly when call_count is 0.
C30_CountsEveryPayload ==
    pc = "done" =>
        /\ result.call_count = Len(PayloadsIn(args.log_content))
        /\ result.input_tokens = SumOf(PayloadsIn(args.log_content), "prompt_tokens")
        /\ result.output_tokens
              = SumOf(PayloadsIn(args.log_content), "completion_tokens")
        /\ (result.total_cost = None) <=> (result.call_count = 0)
        /\ (result.source = "None") <=> (result.call_count = 0)

====
